---- MODULE Spec2Model ----
(***************************************************************************)
(* The input transformation engine of xwaykeyz (transform.py) together     *)
(* with its output synthesizer (output.py), as a state machine.  One       *)
(* action per event-loop callback: a key event read from a grabbed device  *)
(* (on_event), the suspend timer firing (resume_keys), the passing of      *)
(* time, and shutdown.                                                     *)
(***************************************************************************)
EXTENDS Integers, Sequences, FiniteSets, TLC

VARIABLES
    cfg,                \* name of the booted configuration snapshot (boot_config)
    key_states,         \* transform._key_states, in dict insertion order
    sticky,             \* transform._sticky, in dict insertion order
    active_keymaps,     \* transform._active_keymaps
    suspend_timer,      \* transform._suspend_timer: id of the handle, 0 for None
    last_suspend_timeout, \* transform._last_suspend_timeout
    last_key,           \* transform._last_key
    repeat_cache,       \* transform._repeat_cache
    cache_flags,        \* _modifiers_changed_since_cache, _awaiting_first_repeat_key, _first_repeat_processed
    last_press_ctx_data, \* transform._last_press_ctx_data
    output,             \* transform._output: the Output object's fields
    timers,             \* the event loop's pending call_later handles
    written,            \* what has been written to the virtual device, in order
    closed,             \* the virtual device has been closed (shutdown)
    devices,            \* DeviceRegistry._devices, in list order
    teardown,           \* history: the steps of the shutdown, in the order run
    call,               \* a direct call of Output.send_combo: its combo, the
                        \* output it finds, and whether it has run
    held,               \* environment: the physical keys currently down, each with
                        \* the context the engine saw at its PRESS
    input,              \* environment: the callbacks the event loop has run so far,
                        \* each with the length of the output after it
    queries,            \* environment: number of window-context provider queries
    now,                \* environment: the time, in ticks of one second
    hotplug,            \* input._notify_events, input._add_timer and input._tasks,
                        \* with the environment's /dev/input and inotify queue
    last_event          \* history: the last key event, the context it saw, and the
                        \* keystate table and output length just before it

vars == <<cfg, key_states, sticky, active_keymaps, suspend_timer,
          last_suspend_timeout, last_key, repeat_cache, cache_flags,
          last_press_ctx_data, output, timers, written, closed, devices,
          teardown, call, held, input, queries, now, hotplug, last_event>>

(***************************************************************************)
(* Bounds of the model.                                                    *)
(***************************************************************************)
MaxEvents == 6
MaxDevices == 3
MaxNotified == 3

(***************************************************************************)
(* models/action.py                                                        *)
(***************************************************************************)
PRESS == "PRESS"
RELEASE == "RELEASE"
REPEAT == "REPEAT"
Action == {RELEASE, PRESS, REPEAT}

is_pressed(a) == a = PRESS \/ a = REPEAT
just_pressed(a) == a = PRESS
is_released(a) == a = RELEASE
is_repeat(a) == a = REPEAT

\* Python's None (also the falsy False that resolve_as_* store in multikey)
None == "None"

(***************************************************************************)
(* models/modifier.py: the default modifiers.  Only a modifier with a      *)
(* single key is entered in _BY_KEY.                                       *)
(***************************************************************************)
get_keys(m) ==
    CASE m = "R_CONTROL" -> <<"RIGHT_CTRL">>
      [] m = "L_CONTROL" -> <<"LEFT_CTRL">>
      [] m = "CONTROL"   -> <<"LEFT_CTRL", "RIGHT_CTRL">>
      [] m = "R_ALT"     -> <<"RIGHT_ALT">>
      [] m = "L_ALT"     -> <<"LEFT_ALT">>
      [] m = "ALT"       -> <<"LEFT_ALT", "RIGHT_ALT">>
      [] m = "R_SHIFT"   -> <<"RIGHT_SHIFT">>
      [] m = "L_SHIFT"   -> <<"LEFT_SHIFT">>
      [] m = "SHIFT"     -> <<"LEFT_SHIFT", "RIGHT_SHIFT">>
      [] m = "R_META"    -> <<"RIGHT_META">>
      [] m = "L_META"    -> <<"LEFT_META">>
      [] m = "META"      -> <<"LEFT_META", "RIGHT_META">>
      [] m = "FN"        -> <<"KEY_FN">>

get_key(m) == get_keys(m)[1]

SeqToSet(q) == {q[i] : i \in DOMAIN q}

BY_KEY == {"RIGHT_CTRL", "LEFT_CTRL", "RIGHT_ALT", "LEFT_ALT", "RIGHT_SHIFT",
           "LEFT_SHIFT", "RIGHT_META", "LEFT_META", "KEY_FN"}

is_key_modifier(key) == key \in BY_KEY

from_key(key) ==
    CASE key = "RIGHT_CTRL"  -> "R_CONTROL"
      [] key = "LEFT_CTRL"   -> "L_CONTROL"
      [] key = "RIGHT_ALT"   -> "R_ALT"
      [] key = "LEFT_ALT"    -> "L_ALT"
      [] key = "RIGHT_SHIFT" -> "R_SHIFT"
      [] key = "LEFT_SHIFT"  -> "L_SHIFT"
      [] key = "RIGHT_META"  -> "R_META"
      [] key = "LEFT_META"   -> "L_META"
      [] key = "KEY_FN"      -> "FN"

\* The kernel's key codes (Key is an enumeration over them).
KeyCode(key) ==
    CASE key = "TAB" -> 15
      [] key = "LEFT_CTRL" -> 29
      [] key = "A" -> 30
      [] key = "F" -> 33
      [] key = "J" -> 36
      [] key = "K" -> 37
      [] key = "LEFT_SHIFT" -> 42
      [] key = "C" -> 46
      [] key = "B" -> 48
      [] key = "RIGHT_SHIFT" -> 54
      [] key = "LEFT_ALT" -> 56
      [] key = "SPACE" -> 57
      [] key = "CAPSLOCK" -> 58
      [] key = "ESC" -> 1
      [] key = "Q" -> 16
      [] key = "Y" -> 21
      [] key = "L" -> 38
      [] key = "Z" -> 44
      [] key = "X" -> 45
      [] key = "F15" -> 185
      [] key = "F16" -> 186
      [] key = "RIGHT_CTRL" -> 97
      [] key = "RIGHT_ALT" -> 100
      [] key = "DELETE" -> 111
      [] key = "LEFT_META" -> 125
      [] key = "RIGHT_META" -> 126
      [] key = "KEY_FN" -> 464

\* Iteration order of a Python set of keys: by hash slot in the 8-slot table
\* of a small set, the key code breaking ties.
SetSlot(key) == (KeyCode(key) % 8) * 1000 + KeyCode(key)

RECURSIVE SetOrder(_)
SetOrder(S) ==
    IF S = {} THEN <<>>
    ELSE LET k == CHOOSE x \in S : \A y \in S : SetSlot(x) <= SetSlot(y)
         IN <<k>> \o SetOrder(S \ {k})

Reverse(q) == [i \in 1..Len(q) |-> q[Len(q) + 1 - i]]

(***************************************************************************)
(* Window contexts.  The provider is an external capability: asked, it     *)
(* answers (wm_class, wm_name, error).  KeyContext (lib/key_context.py)    *)
(* holds the answer in _X_ctx.  The value stored under "wndw_ctxt_error"   *)
(* is tagged with its Python type, because from_cache stores whatever it   *)
(* is handed: v is the error flag it carries.                              *)
(***************************************************************************)
WinFirefox == [wm_class |-> "Firefox", wm_name |-> "Firefox", err |-> FALSE]
WinTerminal == [wm_class |-> "Terminal", wm_name |-> "Terminal", err |-> FALSE]
WinError == [wm_class |-> "", wm_name |-> "", err |-> TRUE]

PyBool(b) == [tag |-> "bool", v |-> b]
PyDict(d) == [tag |-> "dict", v |-> d.wndw_ctxt_error.v]

\* Python truth value: a bool is itself, a dict is true iff it is not empty
\* (the cached dict always has its three keys).
Truthy(x) == IF x.tag = "bool" THEN x.v ELSE TRUE

\* KeyContext(device, window_context) after its one lazy provider query
KeyContext(answer) ==
    [wm_class |-> answer.wm_class, wm_name |-> answer.wm_name,
     wndw_ctxt_error |-> PyBool(answer.err)]

\* KeyContext.from_cache(device, cached_wndw_ctxt_error)
from_cache(cached_wndw_ctxt_error) ==
    [wm_class |-> "", wm_name |-> "",
     wndw_ctxt_error |-> cached_wndw_ctxt_error]

\* the properties wm_class, wm_name, wndw_ctxt_error of a KeyContext
wm_class(ctx) ==
    IF ctx.wm_class = "" THEN "ERR: KeyContext: NoneType in wm_class"
    ELSE ctx.wm_class
wm_name(ctx) ==
    IF ctx.wm_name = "" THEN "ERR: KeyContext: NoneType in wm_name"
    ELSE ctx.wm_name
\* mutant: no context ever counts as an error
wndw_ctxt_error_mutant(ctx) == FALSE

wndw_ctxt_error(ctx) == Truthy(ctx.wndw_ctxt_error)

(***************************************************************************)
(* Configuration snapshots (config_api.py).  A condition is None, a        *)
(* wm_class_match or a not_wm_class_match on a literal class name.         *)
(***************************************************************************)
Always == [kind |-> "none", re |-> ""]
wm_class_match(re) == [kind |-> "match", re |-> re]
not_wm_class_match_mutant(re) == [kind |-> "match", re |-> re]
not_wm_class_match(re) == [kind |-> "notmatch", re |-> re]

\* rgx.search(ctx.wm_class) for a literal pattern naming a whole class
conditional(cond, ctx) ==
    CASE cond.kind = "match" -> wm_class(ctx) = cond.re
      [] cond.kind = "notmatch" -> wm_class(ctx) # cond.re
      [] OTHER -> TRUE

is_specific(m) == Len(get_keys(m)) = 1

to_left(m) ==
    CASE m = "CONTROL" -> "L_CONTROL" [] m = "ALT" -> "L_ALT"
      [] m = "SHIFT" -> "L_SHIFT" [] m = "META" -> "L_META"

to_right(m) ==
    CASE m = "CONTROL" -> "R_CONTROL" [] m = "ALT" -> "R_ALT"
      [] m = "SHIFT" -> "R_SHIFT" [] m = "META" -> "R_META"

\* keymap(): every modifier of a left-hand side that is not left/right
\* specific is expanded into its two variants (cartesian product).
RECURSIVE expand(_)
expand(modifiers) ==
    IF modifiers = <<>> THEN {{}}
    ELSE LET m == Head(modifiers)
             variants == IF is_specific(m) THEN {m} ELSE {to_left(m), to_right(m)}
         IN {{v} \cup rest : v \in variants, rest \in expand(Tail(modifiers))}

\* commands of a right-hand side
Combo(modifiers, key) == [t |-> "combo", modifiers |-> modifiers, key |-> key]
KeyCmd(key) == [t |-> "key", modifiers |-> <<>>, key |-> key]
Hint(h) == [t |-> h, modifiers |-> <<>>, key |-> None]
NestedKeymap(i) == [t |-> "keymap", modifiers |-> <<>>, key |-> i]
bind == Hint("bind")
escape_next_key == Hint("escape_next_key")
escape_next_combo == Hint("escape_next_combo")
ignore_key == Hint("ignore_key")

\* a user function as a command: what it returns when called, or that the
\* call raises
Function(raises, returns) ==
    [t |-> "function", modifiers |-> <<>>, key |-> None, raises |-> raises,
     returns |-> returns]

\* a list of commands as a command
List(commands) ==
    [t |-> "list", modifiers |-> <<>>, key |-> None, raises |-> FALSE,
     returns |-> commands]

\* a command of no known type, such as a string
Unknown == Hint("unknown")

\* one binding K(lhs): rhs of a keymap, its left-hand side already expanded
Binding(modifiers, key, commands) ==
    [lhs |-> expand(modifiers), key |-> key, commands |-> commands]

NoMap == [k \in {} |-> None]

\* TIMEOUT_DEFAULTS: one second each, in ticks of one second
DefaultTimeouts == [multipurpose |-> 1, suspend |-> 1]

\* no modmap, no multipurpose modmap, no keymap
CfgPlain ==
    [inkeys |-> {"LEFT_CTRL", "LEFT_ALT", "A"},
     actions |-> {PRESS, RELEASE},
     windows |-> {WinFirefox, WinError},
     modmaps |-> << [cond |-> Always, mappings |-> NoMap] >>,
     multi_modmaps |-> << [cond |-> Always, mappings |-> NoMap] >>,
     keymaps |-> << >>,
     timeouts |-> DefaultTimeouts,
     ignore_repeating_keys |-> TRUE]

\* tests/test_modmap.py, with the key-to-key entry of test_modmap_cond_multi.py
CfgModmap ==
    [inkeys |-> {"LEFT_META", "LEFT_CTRL", "F", "C"},
     actions |-> {PRESS, RELEASE, REPEAT},
     windows |-> {WinFirefox},
     modmaps |-> << [cond |-> Always,
                     mappings |-> ("LEFT_META" :> "LEFT_CTRL") @@ ("C" :> "DELETE")] >>,
     multi_modmaps |-> << [cond |-> Always, mappings |-> NoMap] >>,
     keymaps |-> << >>,
     timeouts |-> DefaultTimeouts,
     ignore_repeating_keys |-> TRUE]

\* an unconditional multipurpose modmap: CAPSLOCK taps ESC, holds LEFT_CTRL
CfgMulti ==
    [inkeys |-> {"CAPSLOCK", "LEFT_SHIFT", "F"},
     actions |-> {PRESS, RELEASE, REPEAT},
     windows |-> {WinFirefox},
     modmaps |-> << [cond |-> Always, mappings |-> NoMap] >>,
     multi_modmaps |-> << [cond |-> Always,
                           mappings |-> ("CAPSLOCK" :> [tap |-> "ESC", hold |-> "LEFT_CTRL"])] >>,
     keymaps |-> << >>,
     timeouts |-> DefaultTimeouts,
     ignore_repeating_keys |-> TRUE]

\* tests/test_modmap_cond_multi.py
CfgCondMulti ==
    [inkeys |-> {"A", "B", "C"},
     actions |-> {PRESS, RELEASE},
     windows |-> {WinFirefox, WinTerminal},
     modmaps |-> << [cond |-> Always, mappings |-> ("C" :> "DELETE")] >>,
     multi_modmaps |-> << [cond |-> Always, mappings |-> NoMap],
                          [cond |-> wm_class_match("Firefox"),
                           mappings |-> ("A" :> [tap |-> "A", hold |-> "LEFT_CTRL"])
                                    @@ ("B" :> [tap |-> "B", hold |-> "LEFT_ALT"])] >>,
     keymaps |-> << >>,
     timeouts |-> DefaultTimeouts,
     ignore_repeating_keys |-> TRUE]

\* tests/test_keymap_basics.py: test_multiple_keys_at_once
CfgKeymap ==
    [inkeys |-> {"LEFT_CTRL", "LEFT_ALT", "J"},
     actions |-> {PRESS, RELEASE},
     windows |-> {WinFirefox, WinTerminal},
     modmaps |-> << [cond |-> Always, mappings |-> NoMap] >>,
     multi_modmaps |-> << [cond |-> Always, mappings |-> NoMap] >>,
     keymaps |-> << [top |-> TRUE, cond |-> wm_class_match("Firefox"),
                     immediately |-> << >>,
                     bindings |-> <<
                        Binding(<<"CONTROL", "ALT">>, "J", << Combo(<<"CONTROL">>, "TAB") >>),
                        Binding(<<"CONTROL", "ALT">>, "K",
                                << Combo(<<"CONTROL", "SHIFT">>, "TAB") >>) >>] >>,
     timeouts |-> DefaultTimeouts,
     ignore_repeating_keys |-> TRUE]

\* a sticky bind, a nested keymap and an escape hint, with repeats processed
CfgSticky ==
    [inkeys |-> {"LEFT_META", "LEFT_CTRL", "SPACE", "X"},
     actions |-> {PRESS, RELEASE, REPEAT},
     windows |-> {WinFirefox},
     modmaps |-> << [cond |-> Always, mappings |-> NoMap] >>,
     multi_modmaps |-> << [cond |-> Always, mappings |-> NoMap] >>,
     keymaps |-> << [top |-> TRUE, cond |-> Always, immediately |-> << >>,
                     bindings |-> <<
                        Binding(<<"META">>, "SPACE", << bind, Combo(<<"CONTROL">>, "SPACE") >>),
                        Binding(<<"CONTROL">>, "X", << NestedKeymap(2) >>),
                        Binding(<<"META">>, "X", << escape_next_combo >>) >>],
                    [top |-> FALSE, cond |-> Always, immediately |-> << >>,
                     bindings |-> <<
                        Binding(<<"CONTROL">>, "SPACE", << KeyCmd("Q") >>) >>] >>,
     timeouts |-> DefaultTimeouts,
     ignore_repeating_keys |-> FALSE]

\* tests/test_keymap_basics.py: test_wm_conditional_as_argument
CfgCondKeymap ==
    [inkeys |-> {"A", "LEFT_SHIFT"},
     actions |-> {PRESS, RELEASE},
     windows |-> {WinFirefox, WinTerminal},
     modmaps |-> << [cond |-> Always, mappings |-> NoMap] >>,
     multi_modmaps |-> << [cond |-> Always, mappings |-> NoMap] >>,
     keymaps |-> << [top |-> TRUE, cond |-> wm_class_match("Firefox"),
                     immediately |-> << >>,
                     bindings |-> << Binding(<<>>, "A", << Combo(<<>>, "B") >>) >>],
                    [top |-> TRUE, cond |-> not_wm_class_match("Firefox"),
                     immediately |-> << >>,
                     bindings |-> << Binding(<<>>, "A", << Combo(<<>>, "C") >>) >>] >>,
     timeouts |-> DefaultTimeouts,
     ignore_repeating_keys |-> TRUE]

\* tests/test_keymap_basics.py:
\* test_multiple_combos_without_releasing_all_nonsticky, with one input
\* modifier in place of two
CfgCombos ==
    [inkeys |-> {"LEFT_CTRL", "J", "K"},
     actions |-> {PRESS, RELEASE},
     windows |-> {WinFirefox},
     modmaps |-> << [cond |-> Always, mappings |-> NoMap] >>,
     multi_modmaps |-> << [cond |-> Always, mappings |-> NoMap] >>,
     keymaps |-> << [top |-> TRUE, cond |-> wm_class_match("Firefox"),
                     immediately |-> << >>,
                     bindings |->
                        << Binding(<<"CONTROL">>, "J",
                                   << Combo(<<"CONTROL">>, "TAB") >>),
                           Binding(<<"CONTROL">>, "K",
                                   << Combo(<<"CONTROL", "SHIFT">>, "TAB") >>) >>] >>,
     timeouts |-> DefaultTimeouts,
     ignore_repeating_keys |-> TRUE]

\* a keymap with two rules that ask for a sticky bind, the first as in
\* "LMETA-SPACE => (BIND, LCTRL-SPACE)"
CfgBind ==
    [inkeys |-> {"LEFT_META", "LEFT_ALT", "SPACE", "F"},
     actions |-> {PRESS, RELEASE},
     windows |-> {WinFirefox},
     modmaps |-> << [cond |-> Always, mappings |-> NoMap] >>,
     multi_modmaps |-> << [cond |-> Always, mappings |-> NoMap] >>,
     keymaps |-> << [top |-> TRUE, cond |-> Always, immediately |-> << >>,
                     bindings |-> <<
                        Binding(<<"META">>, "SPACE",
                                << bind, Combo(<<"CONTROL">>, "SPACE") >>),
                        Binding(<<"META", "ALT">>, "SPACE",
                                << bind, Combo(<<"SHIFT">>, "SPACE") >>) >>] >>,
     timeouts |-> DefaultTimeouts,
     ignore_repeating_keys |-> TRUE]

\* config_api.py: timeouts(multipurpose=1, suspend=2), a dual-role key, a
\* modifier and a rule, so that the suspend timer is armed on each path
CfgTimeouts ==
    [inkeys |-> {"CAPSLOCK", "LEFT_SHIFT", "F"},
     actions |-> {PRESS, RELEASE},
     windows |-> {WinFirefox},
     modmaps |-> << [cond |-> Always, mappings |-> NoMap] >>,
     multi_modmaps |-> << [cond |-> Always,
                           mappings |-> ("CAPSLOCK" :> [tap |-> "ESC", hold |-> "LEFT_CTRL"])] >>,
     keymaps |-> << [top |-> TRUE, cond |-> Always, immediately |-> << >>,
                     bindings |-> <<
                        Binding(<<"CONTROL">>, "F", << Combo(<<>>, "DELETE") >>) >>] >>,
     timeouts |-> [multipurpose |-> 1, suspend |-> 2],
     ignore_repeating_keys |-> TRUE]

\* ignore_repeating_keys(False): REPEAT events are processed.  LEFT_META is
\* modmapped to LEFT_CTRL; F hits no rule (passthrough), Ctrl+J is answered
\* by a combo and J alone by a key
CfgRepeat ==
    [inkeys |-> {"LEFT_META", "F", "J"},
     actions |-> {PRESS, RELEASE, REPEAT},
     windows |-> {WinFirefox},
     modmaps |-> << [cond |-> Always, mappings |-> ("LEFT_META" :> "LEFT_CTRL")] >>,
     multi_modmaps |-> << [cond |-> Always, mappings |-> NoMap] >>,
     keymaps |-> << [top |-> TRUE, cond |-> Always, immediately |-> << >>,
                     bindings |-> <<
                        Binding(<<"CONTROL">>, "J", << Combo(<<"CONTROL">>, "TAB") >>),
                        Binding(<<>>, "J", << KeyCmd("Q") >>) >>] >>,
     timeouts |-> DefaultTimeouts,
     ignore_repeating_keys |-> FALSE]

\* a rule with both keys of CONTROL on the left and the generic CONTROL on
\* the right: K("LC-RC-j"): K("C-TAB")
CfgBothSides ==
    [inkeys |-> {"LEFT_CTRL", "RIGHT_CTRL", "J"},
     actions |-> {PRESS, RELEASE},
     windows |-> {WinFirefox},
     modmaps |-> << [cond |-> Always, mappings |-> NoMap] >>,
     multi_modmaps |-> << [cond |-> Always, mappings |-> NoMap] >>,
     keymaps |-> << [top |-> TRUE, cond |-> Always, immediately |-> << >>,
                     bindings |-> <<
                        Binding(<<"L_CONTROL", "R_CONTROL">>, "J",
                                << Combo(<<"CONTROL">>, "TAB") >>) >>] >>,
     timeouts |-> DefaultTimeouts,
     ignore_repeating_keys |-> TRUE]

\* the default configuration, run with any number of grabbed keyboards
CfgDevices ==
    [inkeys |-> {"LEFT_CTRL", "A"},
     actions |-> {PRESS, RELEASE},
     windows |-> {WinFirefox},
     modmaps |-> << [cond |-> Always, mappings |-> NoMap] >>,
     multi_modmaps |-> << [cond |-> Always, mappings |-> NoMap] >>,
     keymaps |-> << >>,
     timeouts |-> DefaultTimeouts,
     ignore_repeating_keys |-> TRUE]

\* the default configuration, typed with the two reserved keys F15 and F16
CfgReserved ==
    [inkeys |-> {"LEFT_CTRL", "A", "F15", "F16"},
     actions |-> {PRESS, RELEASE, REPEAT},
     windows |-> {WinFirefox},
     modmaps |-> << [cond |-> Always, mappings |-> NoMap] >>,
     multi_modmaps |-> << [cond |-> Always, mappings |-> NoMap] >>,
     keymaps |-> << >>,
     timeouts |-> DefaultTimeouts,
     ignore_repeating_keys |-> TRUE]

\* a keymap whose command lists hold a user function that raises and a
\* command of unknown type, each followed by a key
CfgFaulty ==
    [inkeys |-> {"LEFT_CTRL", "A", "J"},
     actions |-> {PRESS, RELEASE},
     windows |-> {WinFirefox},
     modmaps |-> << [cond |-> Always, mappings |-> NoMap] >>,
     multi_modmaps |-> << [cond |-> Always, mappings |-> NoMap] >>,
     keymaps |-> << [top |-> TRUE, cond |-> Always, immediately |-> << >>,
                     bindings |-> <<
                        Binding(<<"CONTROL">>, "A",
                                << Function(TRUE, << >>), Combo(<<>>, "B") >>),
                        Binding(<<"CONTROL">>, "J",
                                << Unknown, Combo(<<>>, "C") >>) >>] >>,
     timeouts |-> DefaultTimeouts,
     ignore_repeating_keys |-> TRUE]

\* command lists of several combos: with a user function and a nested list,
\* with an escape hint, and with a nested keymap that has "immediately"
\* commands
CfgMacro ==
    [inkeys |-> {"LEFT_CTRL", "K", "J", "L"},
     actions |-> {PRESS, RELEASE},
     windows |-> {WinFirefox},
     modmaps |-> << [cond |-> Always, mappings |-> NoMap] >>,
     multi_modmaps |-> << [cond |-> Always, mappings |-> NoMap] >>,
     keymaps |-> << [top |-> TRUE, cond |-> Always, immediately |-> << >>,
                     bindings |-> <<
                        Binding(<<"CONTROL">>, "K",
                                << Combo(<<"SHIFT">>, "X"),
                                   Function(FALSE, << Combo(<<>>, "Y"), ignore_key,
                                                      Combo(<<>>, "Q") >>),
                                   List(<< Combo(<<"ALT">>, "Z") >>) >>),
                        Binding(<<"CONTROL">>, "J",
                                << Combo(<<"SHIFT">>, "X"), escape_next_key,
                                   Combo(<<>>, "Y") >>),
                        Binding(<<"CONTROL">>, "L",
                                << Combo(<<"SHIFT">>, "X"), NestedKeymap(2) >>) >>],
                    [top |-> FALSE, cond |-> Always,
                     immediately |-> << Combo(<<"ALT">>, "Z") >>,
                     bindings |-> <<
                        Binding(<<"CONTROL">>, "K", << KeyCmd("Q") >>) >>] >>,
     timeouts |-> DefaultTimeouts,
     ignore_repeating_keys |-> TRUE]

\* a combo sequence and an escape: Ctrl+X enters a nested keymap that binds
\* Ctrl+SPACE, and at top level Ctrl+SPACE escapes the next combo; repeats
\* are processed and the window-context provider can fail
CfgNested ==
    [inkeys |-> {"LEFT_CTRL", "X", "SPACE"},
     actions |-> {PRESS, RELEASE, REPEAT},
     windows |-> {WinFirefox, WinError},
     modmaps |-> << [cond |-> Always, mappings |-> NoMap] >>,
     multi_modmaps |-> << [cond |-> Always, mappings |-> NoMap] >>,
     keymaps |-> << [top |-> TRUE, cond |-> Always, immediately |-> << >>,
                     bindings |-> <<
                        Binding(<<"CONTROL">>, "X", << NestedKeymap(2) >>),
                        Binding(<<"CONTROL">>, "SPACE", << escape_next_combo >>) >>],
                    [top |-> FALSE, cond |-> Always, immediately |-> << >>,
                     bindings |-> <<
                        Binding(<<"CONTROL">>, "SPACE", << KeyCmd("Q") >>) >>] >>,
     timeouts |-> DefaultTimeouts,
     ignore_repeating_keys |-> FALSE]

\* two rules with BIND on one input modifier: the output modifier of the
\* first is another modifier, that of the second is the input modifier itself
CfgCover ==
    [inkeys |-> {"LEFT_META", "SPACE", "F"},
     actions |-> {PRESS, RELEASE},
     windows |-> {WinFirefox},
     modmaps |-> << [cond |-> Always, mappings |-> NoMap] >>,
     multi_modmaps |-> << [cond |-> Always, mappings |-> NoMap] >>,
     keymaps |-> << [top |-> TRUE, cond |-> Always, immediately |-> << >>,
                     bindings |-> <<
                        Binding(<<"META">>, "SPACE",
                                << bind, Combo(<<"CONTROL">>, "SPACE") >>),
                        Binding(<<"META">>, "F",
                                << bind, Combo(<<"META">>, "TAB") >>) >>] >>,
     timeouts |-> DefaultTimeouts,
     ignore_repeating_keys |-> TRUE]

\* two keyboards, repeats processed: J is bound to a key in Firefox and to a
\* nested keymap elsewhere
CfgTwoKeyboards ==
    [inkeys |-> {"J", "LEFT_SHIFT"},
     actions |-> {PRESS, RELEASE, REPEAT},
     windows |-> {WinFirefox, WinTerminal},
     modmaps |-> << [cond |-> Always, mappings |-> NoMap] >>,
     multi_modmaps |-> << [cond |-> Always, mappings |-> NoMap] >>,
     keymaps |-> << [top |-> TRUE, cond |-> wm_class_match("Firefox"),
                     immediately |-> << >>,
                     bindings |-> << Binding(<<>>, "J", << KeyCmd("Q") >>) >>],
                    [top |-> TRUE, cond |-> not_wm_class_match("Firefox"),
                     immediately |-> << >>,
                     bindings |-> << Binding(<<>>, "J", << NestedKeymap(3) >>) >>],
                    [top |-> FALSE, cond |-> Always, immediately |-> << >>,
                     bindings |-> << Binding(<<>>, "J", << KeyCmd("Z") >>) >>] >>,
     timeouts |-> DefaultTimeouts,
     ignore_repeating_keys |-> FALSE]

\* a modmap, a dual-role key and a keymap, with a window-context provider
\* that can fail
CfgError ==
    [inkeys |-> {"LEFT_CTRL", "C", "CAPSLOCK"},
     actions |-> {PRESS, RELEASE},
     windows |-> {WinFirefox, WinError},
     modmaps |-> << [cond |-> Always, mappings |-> ("C" :> "DELETE")] >>,
     multi_modmaps |-> << [cond |-> Always,
                           mappings |-> ("CAPSLOCK" :> [tap |-> "ESC", hold |-> "LEFT_CTRL"])] >>,
     keymaps |-> << [top |-> TRUE, cond |-> Always, immediately |-> << >>,
                     bindings |-> <<
                        Binding(<<"CONTROL">>, "DELETE", << Combo(<<>>, "B") >>) >>] >>,
     timeouts |-> DefaultTimeouts,
     ignore_repeating_keys |-> TRUE]

\* the configuration booted before the startup injection: a modmap and a
\* keymap on keys that the injection releases
CfgWakeup ==
    [inkeys |-> {"LEFT_META", "C"},
     actions |-> {RELEASE},
     windows |-> {WinFirefox},
     modmaps |-> << [cond |-> Always,
                     mappings |-> ("LEFT_META" :> "LEFT_CTRL") @@ ("C" :> "DELETE")] >>,
     multi_modmaps |-> << [cond |-> Always, mappings |-> NoMap] >>,
     keymaps |-> << [top |-> TRUE, cond |-> Always, immediately |-> << >>,
                     bindings |-> << Binding(<<>>, "J", << KeyCmd("Q") >>) >>] >>,
     timeouts |-> DefaultTimeouts,
     ignore_repeating_keys |-> TRUE]

\* one chord on a modifier, so that a PRESS of the modifier suspends it and
\* arms the suspend timer
CfgReset ==
    [inkeys |-> {"LEFT_CTRL", "J"},
     actions |-> {PRESS, RELEASE},
     windows |-> {WinFirefox},
     modmaps |-> << [cond |-> Always, mappings |-> NoMap] >>,
     multi_modmaps |-> << [cond |-> Always, mappings |-> NoMap] >>,
     keymaps |-> << [top |-> TRUE, cond |-> Always, immediately |-> << >>,
                     bindings |-> <<
                        Binding(<<"CONTROL">>, "J", << Combo(<<"CONTROL">>, "TAB") >>) >>] >>,
     timeouts |-> DefaultTimeouts,
     ignore_repeating_keys |-> TRUE]

CfgNames == {"plain", "modmap", "multi", "cond_multi", "keymap", "sticky",
             "cond_keymap", "combos", "bind", "timeouts", "repeat", "both_sides", "devices",
             "reserved", "faulty", "macro", "send_combo", "nested", "cover",
             "two_keyboards", "error", "wakeup", "reset", "hotplug"}

Config(name) ==
    CASE name = "plain" -> CfgPlain
      [] name = "modmap" -> CfgModmap
      [] name = "multi" -> CfgMulti
      [] name = "cond_multi" -> CfgCondMulti
      [] name = "keymap" -> CfgKeymap
      [] name = "sticky" -> CfgSticky
      [] name = "cond_keymap" -> CfgCondKeymap
      [] name = "combos" -> CfgCombos
      [] name = "bind" -> CfgBind
      [] name = "timeouts" -> CfgTimeouts
      [] name = "repeat" -> CfgRepeat
      [] name = "both_sides" -> CfgBothSides
      [] name = "devices" -> CfgDevices
      [] name = "reserved" -> CfgReserved
      [] name = "faulty" -> CfgFaulty
      [] name = "macro" -> CfgMacro
      [] name = "nested" -> CfgNested
      [] name = "cover" -> CfgCover
      [] name = "two_keyboards" -> CfgTwoKeyboards
      [] name = "error" -> CfgError
      [] name = "wakeup" -> CfgWakeup
      [] name = "reset" -> CfgReset

\* what boot_config() loads: get_configuration()
MODMAPS(c) == Config(c).modmaps
MULTI_MODMAPS(c) == Config(c).multi_modmaps
KEYMAPS(c) == Config(c).keymaps
TIMEOUTS(c) == Config(c).timeouts
ignore_repeating_keys(c) == Config(c).ignore_repeating_keys

(***************************************************************************)
(* The engine state as one value s, threaded through the handlers: the     *)
(* module globals of transform.py, the fields of its Output object, the    *)
(* event loop's timers and the virtual device.  s.cur is the Keystate      *)
(* object of the event being processed while it is not (or no longer) in   *)
(* _key_states; s.exc names the exception that ended the handler, if any.  *)
(***************************************************************************)

\* models/keystate.py: Keystate(inkey, action)
Keystate(inkey, action) ==
    [inkey |-> inkey, action |-> action, key |-> None, multikey |-> None,
     suspended |-> FALSE, is_multi |-> FALSE, exerted_on_output |-> FALSE,
     spent |-> FALSE, other_key_pressed_while_held |-> FALSE]

key_is_pressed(ks) == is_pressed(ks.action)

\* mutant: a tap resolved the way a hold is
resolve_as_momentary_mutant(ks) ==
    [ks EXCEPT !.key = ks.multikey, !.is_multi = FALSE, !.multikey = None]

resolve_as_momentary(ks) == [ks EXCEPT !.is_multi = FALSE, !.multikey = None]

\* mutant: the hold key is not assigned
resolve_as_modifier_mutant(ks) == [ks EXCEPT !.is_multi = FALSE, !.multikey = None]

resolve_as_modifier(ks) ==
    [ks EXCEPT !.key = ks.multikey, !.is_multi = FALSE, !.multikey = None]

\* the empty one-slot _last_output_for_cache
NoOutput == [t |-> "None", modifiers |-> <<>>, key |-> None]

(***************************************************************************)
(* output.py: the output synthesizer                                       *)
(***************************************************************************)

\* first write wins within one input event
track_output_for_cache(s, type, data) ==
    IF s.last_output_for_cache.t = "None"
    THEN [s EXCEPT !.last_output_for_cache =
                [t |-> type, modifiers |-> data.modifiers, key |-> data.key]]
    ELSE s

clear_cache_tracking(s) == [s EXCEPT !.last_output_for_cache = NoOutput]

is_mod_pressed(s, key) == key \in s.pressed_modifier_keys

is_key_pressed(s, key) == key \in s.pressed_keys

update_pressed_modifier_keys(s, key, action) ==
    IF ~is_key_modifier(key) THEN s
    ELSE IF is_pressed(action)
         THEN [s EXCEPT !.pressed_modifier_keys = @ \cup {key}]
         ELSE [s EXCEPT !.pressed_modifier_keys = @ \ {key}]

update_pressed_keys(s, key, action) ==
    IF is_pressed(action)
    THEN [s EXCEPT !.pressed_keys = @ \cup {key}]
    ELSE [s EXCEPT !.pressed_keys = @ \ {key}]

\* _uinput.write(EV_KEY, key, action)
uinput_write(s, key, action) == [s EXCEPT !.written = Append(@, <<action, key>>)]

send_key_action(s, key, action) ==
    LET s1 == update_pressed_modifier_keys(s, key, action)
        s2 == update_pressed_keys(s1, key, action)
        s3 == uinput_write(s2, key, action)
    IN IF action = PRESS
       THEN track_output_for_cache(s3, "passthrough", KeyCmd(key))
       ELSE s3

send_key_action_fast(s, key, action) == send_key_action(s, key, action)

\* forwards the raw event: the pressed sets are not touched
send_event(s, code, value) == uinput_write(s, code, value)

RECURSIVE send_each(_, _, _)
send_each(s, keys, action) ==
    IF keys = <<>> THEN s
    ELSE send_each(send_key_action(s, Head(keys), action), Tail(keys), action)

\* the (pressed key, index of a combo modifier) pairs that the nested loop of
\* send_combo finds: each removes the pressed key from the set to lift
combo_matches(s, combo) ==
    {<<k, i>> \in s.pressed_modifier_keys \X DOMAIN combo.modifiers :
        k \in SeqToSet(get_keys(combo.modifiers[i]))}

\* mutant: list.remove() of a modifier that an earlier match already
\* removed raises as well (send_combo without the guard of lines 186-189)
combo_raises_mutant(s, combo) ==
    \E p, q \in combo_matches(s, combo) : p # q /\ (p[1] = q[1] \/ p[2] = q[2])

\* set.remove() of a key that an earlier match already removed
combo_raises(s, combo) ==
    \E p, q \in combo_matches(s, combo) : p[1] = q[1] /\ p[2] # q[2]

\* mutant: no pressed modifier key is lifted for the combo
mod_keys_we_need_to_lift_mutant(s, combo) == {}

mod_keys_we_need_to_lift(s, combo) ==
    s.pressed_modifier_keys \ {p[1] : p \in combo_matches(s, combo)}

mods_we_need_to_press(s, combo) ==
    LET covered(m) == \E k \in s.pressed_modifier_keys : k \in SeqToSet(get_keys(m))
    IN SelectSeq(combo.modifiers, LAMBDA m : ~covered(m))

\* mutant: the lifted modifier keys are never pressed again
reexert_lifted_mutant(s5, released_mod_keys) == s5

\* the end of send_combo: the lifted modifier keys are left to
\* disallow_suspend while suspending, and pressed again otherwise
reexert_lifted(s5, released_mod_keys) ==
    IF s5.suspend_depth > 0
    THEN [s5 EXCEPT !.suspended_mod_keys = @ \o released_mod_keys]
    ELSE send_each(s5, Reverse(released_mod_keys), PRESS)

\* mutant: the modifiers pressed for the combo stay down after it
send_combo_keys_mutant(s0, combo, released_mod_keys, pressed_mod_keys) ==
    LET s1 == send_each(s0, released_mod_keys, RELEASE)
        s2 == send_each(s1, pressed_mod_keys, PRESS)
        s3 == send_key_action(s2, combo.key, PRESS)
    IN reexert_lifted(send_key_action(s3, combo.key, RELEASE), released_mod_keys)

\* the writes of send_combo, once it is known what to lift and what to press
send_combo_keys(s0, combo, released_mod_keys, pressed_mod_keys) ==
    LET s1 == send_each(s0, released_mod_keys, RELEASE)
        s2 == send_each(s1, pressed_mod_keys, PRESS)
        s3 == send_key_action(s2, combo.key, PRESS)
        s4 == send_key_action(s3, combo.key, RELEASE)
    IN reexert_lifted(send_each(s4, Reverse(pressed_mod_keys), RELEASE),
                      released_mod_keys)

send_combo(s, combo) ==
    LET s0 == track_output_for_cache(s, "combo", combo)
        to_press == mods_we_need_to_press(s0, combo)
    IN IF combo_raises(s0, combo) THEN [s0 EXCEPT !.exc = "KeyError"]
       ELSE send_combo_keys(s0, combo,
                Reverse(SetOrder(mod_keys_we_need_to_lift(s0, combo))),
                [i \in DOMAIN to_press |-> get_key(to_press[i])])

send_key(s, key) ==
    send_combo(track_output_for_cache(s, "key", KeyCmd(key)), Combo(<<>>, key))

\* mutant: only the modifier keys are released
output_shutdown_mutant(s) ==
    [send_each(s, SetOrder(s.pressed_modifier_keys), RELEASE) EXCEPT !.closed = TRUE]

output_shutdown(s) ==
    LET s1 == send_each(s, SetOrder(s.pressed_keys), RELEASE)
        s2 == send_each(s1, SetOrder(s1.pressed_modifier_keys), RELEASE)
    IN [s2 EXCEPT !.closed = TRUE]

allow_suspend(s) == [s EXCEPT !.suspend_depth = @ + 1]

\* mutant: the lifted keys are pressed again at every close, not only at the
\* outermost one
disallow_suspend_mutant(s) ==
    [send_each([s EXCEPT !.suspend_depth = @ - 1], s.suspended_mod_keys, PRESS)
        EXCEPT !.suspended_mod_keys = <<>>]

disallow_suspend(s) ==
    LET s1 == [s EXCEPT !.suspend_depth = @ - 1]
    IN IF s1.suspend_depth > 0 THEN s1
       ELSE [send_each(s1, s1.suspended_mod_keys, PRESS)
                EXCEPT !.suspended_mod_keys = <<>>]

(***************************************************************************)
(* transform.py: the keystate table                                        *)
(***************************************************************************)

\* position of inkey in _key_states, 0 when it is not a key of the dict
Index(s, inkey) ==
    IF \E i \in DOMAIN s.key_states : s.key_states[i].inkey = inkey
    THEN CHOOSE i \in DOMAIN s.key_states : s.key_states[i].inkey = inkey
    ELSE 0

\* the Keystate object of the event being processed, and an assignment to it
Cur(s, inkey) ==
    IF Index(s, inkey) # 0 THEN s.key_states[Index(s, inkey)] ELSE s.cur

SetCur(s, inkey, ks) ==
    IF Index(s, inkey) # 0
    THEN [s EXCEPT !.key_states[Index(s, inkey)] = ks]
    ELSE [s EXCEPT !.cur = ks]

RemoveAt(q, i) == [j \in 1..(Len(q) - 1) |-> IF j < i THEN q[j] ELSE q[j + 1]]

none_pressed(s) == Len(s.key_states) = 0

get_pressed_states(s) == SelectSeq(s.key_states, key_is_pressed)

\* the keys of the pressed keystates that are modifier keys
pressed_mod_keys_of(s) ==
    LET held_mods == SelectSeq(s.key_states,
                        LAMBDA x : key_is_pressed(x) /\ is_key_modifier(x.key))
    IN [i \in DOMAIN held_mods |-> held_mods[i].key]

get_pressed_mods(s) ==
    LET keys == pressed_mod_keys_of(s)
    IN [i \in DOMAIN keys |-> from_key(keys[i])]

\* mutant: no key is found in the sticky table
is_sticky_mutant(s, key) == FALSE

is_sticky(s, key) == \E i \in DOMAIN s.sticky : s.sticky[i].inkey = key

sticky_outkey(s, key) ==
    s.sticky[CHOOSE i \in DOMAIN s.sticky : s.sticky[i].inkey = key].outkey

update_pressed_states(s, inkey) ==
    LET keystate == Cur(s, inkey)
        s1 == IF keystate.action = RELEASE /\ Index(s, inkey) # 0
              THEN [s EXCEPT !.cur = keystate,
                             !.key_states = RemoveAt(@, Index(s, inkey))]
              ELSE s
    IN IF Index(s1, inkey) = 0 /\ keystate.action = PRESS
       THEN [s1 EXCEPT !.key_states = Append(@, keystate)]
       ELSE s1

find_keystate_or_new(s, inkey, action) ==
    IF Index(s, inkey) = 0
    THEN [s EXCEPT !.cur = Keystate(inkey, action)]
    ELSE [s EXCEPT !.key_states[Index(s, inkey)].action = action]

(***************************************************************************)
(* transform.py: suspend and resume of the input side.  The event loop's  *)
(* timers are the pending call_later handles, each with the time left.    *)
(***************************************************************************)
is_suspended(s) == s.suspend_timer # 0

timer_cancel(s, id) ==
    [s EXCEPT !.timers = SelectSeq(@, LAMBDA h : h.id # id)]

call_later(s, timeout) ==
    LET used == {s.timers[i].id : i \in DOMAIN s.timers}
        id == CHOOSE n \in 1..(Len(s.timers) + 1) : n \notin used
    IN [s EXCEPT !.timers = Append(@, [id |-> id, remaining |-> timeout]),
                 !.suspend_timer = id]

\* mutant: the carve-out taken whenever nothing else resolved the multi-key
special_shift_case_mutant(s, states, i) == TRUE

\* the fallback of resume_keys for a multi-key that nothing else resolved
special_shift_case(s, states, i) ==
    LET ks == s.key_states[i]
        others == SelectSeq(states, LAMBDA j : s.key_states[j].key # ks.key)
    IN /\ Len(others) = 1
       /\ s.key_states[others[1]].key \in SeqToSet(get_keys("SHIFT"))
       /\ ks.multikey \in SeqToSet(get_keys("SHIFT"))
       /\ s.last_key = ks.key

\* the body of the loop "for ks in states" of resume_keys
resume_one(s, states, i) ==
    LET s1 == [s EXCEPT !.key_states[i].spent = FALSE,
                        !.key_states[i].suspended = FALSE]
        ks == s1.key_states[i]
    IN IF is_sticky(s1, ks.key) THEN s1
       ELSE
       LET s2 == IF ~ks.is_multi THEN s1
                 ELSE IF ks.other_key_pressed_while_held
                      THEN [s1 EXCEPT !.key_states[i] = resolve_as_modifier(ks)]
                      ELSE IF ~special_shift_case(s1, states, i)
                           THEN [s1 EXCEPT !.key_states[i] = resolve_as_modifier(ks)]
                           ELSE s1
       IN IF ~s2.key_states[i].exerted_on_output
          THEN send_key_action([s2 EXCEPT !.key_states[i].exerted_on_output = TRUE],
                               s2.key_states[i].key, PRESS)
          ELSE s2

RECURSIVE resume_loop(_, _, _)
resume_loop(s, states, n) ==
    IF n > Len(states) THEN s
    ELSE resume_loop(resume_one(s, states, states[n]), states, n + 1)

\* mutant: the suspended keystates resumed in reverse order
resume_keys_mutant(s) ==
    IF ~is_suspended(s) THEN s
    ELSE LET s1 == [timer_cancel(s, s.suspend_timer)
                        EXCEPT !.last_suspend_timeout = 0, !.suspend_timer = 0]
             states == SelectSeq([i \in DOMAIN s1.key_states |-> i],
                                 LAMBDA i : s1.key_states[i].suspended)
         IN resume_loop(s1, Reverse(states), 1)

resume_keys(s) ==
    IF ~is_suspended(s) THEN s
    ELSE LET s1 == [timer_cancel(s, s.suspend_timer)
                        EXCEPT !.last_suspend_timeout = 0, !.suspend_timer = 0]
             states == SelectSeq([i \in DOMAIN s1.key_states |-> i],
                                 LAMBDA i : s1.key_states[i].suspended)
         IN resume_loop(s1, states, 1)

suspend_keys(s, timeout) ==
    LET s1 == [s EXCEPT !.key_states =
                  [i \in DOMAIN @ |->
                      IF key_is_pressed(@[i]) THEN [@[i] EXCEPT !.suspended = TRUE]
                      ELSE @[i]],
                        !.last_suspend_timeout = timeout]
    IN call_later(s1, timeout)

resuspend_keys(s, timeout) ==
    IF is_suspended(s) /\ timeout < s.last_suspend_timeout THEN s
    ELSE suspend_keys(timer_cancel(s, s.suspend_timer), timeout)

suspend_or_resuspend_keys(s, timeout) ==
    IF is_suspended(s) THEN resuspend_keys(s, timeout)
    ELSE suspend_keys(s, timeout)

(***************************************************************************)
(* transform.py: modmaps                                                   *)
(***************************************************************************)

\* the first conditional map, in declaration order, that has inkey and whose
\* condition holds on ctx; the default (first) map if there is none
active_map(maps, inkey, ctx) ==
    LET hits == SelectSeq([i \in 1..Len(maps) |-> i],
                    LAMBDA i : /\ i > 1
                               /\ inkey \in DOMAIN maps[i].mappings
                               /\ conditional(maps[i].cond, ctx))
    IN IF hits = <<>> THEN maps[1] ELSE maps[hits[1]]

apply_modmap(c, keystate, ctx) ==
    LET active_modmap == active_map(MODMAPS(c), keystate.inkey, ctx)
    IN IF keystate.inkey \in DOMAIN active_modmap.mappings
       THEN [keystate EXCEPT !.key = active_modmap.mappings[keystate.inkey]]
       ELSE [keystate EXCEPT !.key = keystate.inkey]

apply_multi_modmap(c, keystate, ctx) ==
    LET active_multi_modmap == active_map(MULTI_MODMAPS(c), keystate.inkey, ctx)
    IN IF keystate.key \in DOMAIN active_multi_modmap.mappings
       THEN [keystate EXCEPT !.key = active_multi_modmap.mappings[keystate.key].tap,
                             !.multikey = active_multi_modmap.mappings[keystate.key].hold,
                             !.is_multi = TRUE]
       ELSE keystate

(***************************************************************************)
(* transform.py: the repeat cache                                          *)
(***************************************************************************)
NoCache ==
    [set |-> FALSE, inkey |-> None, mods_held |-> <<>>, output |-> NoOutput,
     valid |-> FALSE]

\* mutant: the cache is never marked invalid
invalidate_repeat_cache_mutant(s) == s

invalidate_repeat_cache(s) ==
    IF s.repeat_cache.set
    THEN [s EXCEPT !.repeat_cache.valid = FALSE, !.first_repeat_processed = FALSE]
    ELSE s

RECURSIVE SortByCode(_)
SortByCode(q) ==
    IF q = <<>> THEN <<>>
    ELSE LET i == CHOOSE j \in DOMAIN q : \A k \in DOMAIN q : KeyCode(q[j]) <= KeyCode(q[k])
         IN <<q[i]>> \o SortByCode(RemoveAt(q, i))

get_modifier_snapshot(s) == SortByCode(pressed_mod_keys_of(s))

\* returns the state after the call and whether the cache answered the event
try_replay_cached_repeat(s, key, action) ==
    IF ~s.repeat_cache.set \/ ~s.repeat_cache.valid THEN [s |-> s, hit |-> FALSE]
    ELSE IF key # s.repeat_cache.inkey THEN [s |-> s, hit |-> FALSE]
    ELSE
    LET checked == [s EXCEPT !.modifiers_changed_since_cache = FALSE]
        cache == s.repeat_cache
    IN IF s.modifiers_changed_since_cache
          /\ get_modifier_snapshot(s) # cache.mods_held
       THEN [s |-> invalidate_repeat_cache(checked), hit |-> FALSE]
       ELSE CASE cache.output.t = "passthrough" ->
                    [s |-> send_key_action(checked, key, action), hit |-> TRUE]
              [] cache.output.t = "combo" ->
                    [s |-> send_combo(checked, Combo(cache.output.modifiers, cache.output.key)),
                     hit |-> TRUE]
              [] cache.output.t = "key" ->
                    [s |-> send_key(checked, cache.output.key), hit |-> TRUE]
              [] OTHER -> [s |-> checked, hit |-> FALSE]

\* the indices of the top-level keymaps: _KEYMAPS
top_level_keymaps(c) ==
    SelectSeq([i \in DOMAIN KEYMAPS(c) |-> i], LAMBDA i : KEYMAPS(c)[i].top)

\* mutant: the first REPEAT finds nothing to cache
populate_repeat_cache_mutant(c, s, key, action) ==
    [s EXCEPT !.awaiting_first_repeat_key = None]

populate_repeat_cache(c, s, key, action) ==
    IF ~is_repeat(action) THEN s
    ELSE IF s.last_output_for_cache.t = "None"
    THEN [s EXCEPT !.awaiting_first_repeat_key = None]
    ELSE IF s.last_output_for_cache.t \notin {"passthrough", "combo", "key"}
    THEN clear_cache_tracking([s EXCEPT !.awaiting_first_repeat_key = None])
    ELSE IF s.active_keymaps.t = "list" /\ s.active_keymaps.ids # top_level_keymaps(c)
    THEN clear_cache_tracking([s EXCEPT !.awaiting_first_repeat_key = None])
    ELSE clear_cache_tracking(
            [s EXCEPT !.repeat_cache =
                        [set |-> TRUE, inkey |-> key,
                         mods_held |-> get_modifier_snapshot(s),
                         output |-> s.last_output_for_cache, valid |-> TRUE],
                      !.modifiers_changed_since_cache = FALSE,
                      !.awaiting_first_repeat_key = None])

(***************************************************************************)
(* transform.py: modifier keys                                             *)
(***************************************************************************)
remove_sticky(s, key) ==
    [s EXCEPT !.sticky = SelectSeq(@, LAMBDA e : e.inkey # key)]

\* on_mod_key from update_pressed_states on: the key is suspended, or
\* written to the output unless hold_output
on_mod_key_exert(c, s3, inkey, key, action, should_suspend, hold_output_0) ==
    LET suspending == should_suspend \/ is_suspended(s3)
        s3a == SetCur(s3, inkey, [Cur(s3, inkey) EXCEPT !.suspended = TRUE])
        s5 == send_key_action(s3, key, action)
    IN IF suspending
       THEN IF just_pressed(action)
            THEN suspend_or_resuspend_keys(s3a, TIMEOUTS(c).suspend)
            ELSE s3a
       ELSE IF hold_output_0 THEN s3
       ELSE IF is_released(action)
       THEN SetCur(s5, inkey, [Cur(s5, inkey) EXCEPT !.exerted_on_output = FALSE])
       ELSE s5

on_mod_key(c, s, inkey, ctx) ==
    LET key == Cur(s, inkey).key
        action == Cur(s, inkey).action
        s1 == IF is_pressed(action) \/ is_released(action)
              THEN [s EXCEPT !.modifiers_changed_since_cache = TRUE]
              ELSE s
        should_suspend == is_pressed(action) /\ none_pressed(s1)
        lifted == is_released(action) /\ ~is_pressed(action)
        s2 == IF ~lifted THEN s1
              ELSE IF is_sticky(s1, key)
                   THEN remove_sticky(
                            send_key_action(s1, sticky_outkey(s1, key), RELEASE), key)
                   ELSE IF Cur(s1, inkey).spent THEN s1
                        ELSE resume_keys(s1)
        hold_output_0 == /\ lifted
                         /\ (is_sticky(s1, key) \/ Cur(s1, inkey).spent)
                         /\ ~Cur(s1, inkey).exerted_on_output
    IN on_mod_key_exert(c, update_pressed_states(s2, inkey), inkey, key, action,
                        should_suspend, hold_output_0)

(***************************************************************************)
(* transform.py: sticky binds and command processing                       *)
(***************************************************************************)
NoCombo == Hint("None")

\* binds the first input modifier to the first output modifier; the result
\* is the state and the dict "stuck"
simple_sticky(s, combo, output_combo) ==
    IF combo.t = "None" THEN [s |-> [s EXCEPT !.exc = "AttributeError"], stuck |-> <<>>]
    ELSE
    LET inmods == combo.modifiers
        outmods == output_combo.modifiers
    IN IF Len(inmods) = 0 \/ Len(outmods) = 0 THEN [s |-> s, stuck |-> <<>>]
       ELSE
       LET inkey == get_key(inmods[1])
           outkey == get_key(outmods[1])
           key_in_output == \E i \in DOMAIN outmods : inkey \in SeqToSet(get_keys(outmods[i]))
           i == Index(s, inkey)
           s1 == IF i # 0 /\ s.key_states[i].exerted_on_output /\ ~key_in_output
                 THEN [send_key_action(s, inkey, RELEASE)
                          EXCEPT !.key_states[i].exerted_on_output = FALSE]
                 ELSE s
       IN [s |-> s1, stuck |-> << [inkey |-> inkey, outkey |-> outkey] >>]

\* auto_sticky once simple_sticky has returned r: _sticky is set and the
\* output keys of the bind are pressed
exert_sticky(r) ==
    IF r.s.exc # "" THEN r.s
    ELSE LET s1 == [r.s EXCEPT !.sticky = r.stuck]
             to_press == SelectSeq([i \in DOMAIN r.stuck |-> r.stuck[i].outkey],
                                   LAMBDA k : ~is_mod_pressed(s1, k))
         IN send_each(s1, to_press, PRESS)

\* mutant: a second sticky bind is engaged over the first
auto_sticky_mutant(s, combo, input_combo) ==
    exert_sticky(simple_sticky(s, input_combo, combo))

auto_sticky(s, combo, input_combo) ==
    IF Len(s.sticky) > 0 THEN s
    ELSE exert_sticky(simple_sticky(s, input_combo, combo))

ActiveNone == [t |-> "None", ids |-> <<>>]
ActiveHint(h) == [t |-> h.t, ids |-> <<>>]
ActiveList(ids) == [t |-> "list", ids |-> ids]

\* a Combo command after "if _next_bind: auto_sticky(...)"
send_bound_combo(s1, command) ==
    IF s1.exc # "" THEN s1
    ELSE send_combo(s1, Combo(command.modifiers, command.key))

\* a Keymap command after its "immediately" commands: it becomes the one
\* active keymap
enter_keymap(s1, id) ==
    IF s1.exc # "" THEN [s |-> s1, reset |-> FALSE]
    ELSE [s |-> [s1 EXCEPT !.active_keymaps = ActiveList(<<id>>)], reset |-> FALSE]

\* the end of handle_commands, r being the outcome of its loop
leave_commands(r) == [s |-> disallow_suspend(r.s), reset |-> r.reset]

RECURSIVE handle_commands(_, _, _, _, _, _, _), run_commands(_, _, _, _, _, _, _, _, _)
RECURSIVE after_nested(_, _, _, _, _, _, _, _)

\* "reset_mode = handle_commands(...); if reset_mode is False: return False",
\* r being what the nested call returned, and then the rest of the loop
after_nested(c, r, commands, i, key, action, ctx, input_combo) ==
    IF r.s.exc # "" \/ ~r.reset THEN [s |-> r.s, reset |-> FALSE]
    ELSE run_commands(c, r.s, commands, i + 1, FALSE, key, action, ctx, input_combo)

\* the loop "for command in commands" from position i on; the result is the
\* state and reset_mode
run_commands(c, s, commands, i, next_bind, key, action, ctx, input_combo) ==
    IF s.exc # "" THEN [s |-> s, reset |-> FALSE]
    ELSE IF i > Len(commands) THEN [s |-> s, reset |-> TRUE]
    ELSE
    LET command == commands[i]
    IN CASE command.t = "combo" ->
              run_commands(c, send_bound_combo(
                                 IF next_bind THEN auto_sticky(s, command, input_combo)
                                 ELSE s, command),
                           commands, i + 1, FALSE, key, action, ctx, input_combo)
         [] command.t = "key" ->
              run_commands(c, send_key(s, command.key), commands, i + 1, FALSE,
                           key, action, ctx, input_combo)
         [] command.t = "function" ->
              IF command.raises
              THEN [s |-> [s EXCEPT !.exc = "Exception"], reset |-> FALSE]
              ELSE after_nested(c, handle_commands(c, s, command.returns, key, action,
                                                   ctx, NoCombo),
                                commands, i, key, action, ctx, input_combo)
         [] command.t = "list" ->
              after_nested(c, handle_commands(c, s, command.returns, key, action,
                                              ctx, NoCombo),
                           commands, i, key, action, ctx, input_combo)
         [] command.t = "escape_next_key" ->
              [s |-> [s EXCEPT !.active_keymaps = ActiveHint(escape_next_key)],
               reset |-> FALSE]
         [] command.t = "escape_next_combo" ->
              [s |-> [s EXCEPT !.active_keymaps = ActiveHint(escape_next_combo)],
               reset |-> FALSE]
         [] command.t = "bind" ->
              run_commands(c, s, commands, i + 1, TRUE, key, action, ctx, input_combo)
         [] command.t = "ignore_key" -> [s |-> s, reset |-> TRUE]
         [] command.t = "keymap" ->
              LET keymap == KEYMAPS(c)[command.key]
              IN enter_keymap(IF keymap.immediately # <<>>
                              THEN handle_commands(c, s, keymap.immediately, None, None,
                                                   ctx, NoCombo).s
                              ELSE s, command.key)
         [] OTHER ->
              run_commands(c, s, commands, i + 1, FALSE, key, action, ctx, input_combo)

handle_commands(c, s, commands, key, action, ctx, input_combo) ==
    LET s1 == IF is_suspended(s) THEN resuspend_keys(s, TIMEOUTS(c).suspend) ELSE s
    IN leave_commands(run_commands(c, allow_suspend(s1), commands, 1, FALSE,
                                   key, action, ctx, input_combo))

(***************************************************************************)
(* transform.py: transform_key                                             *)
(***************************************************************************)

\* Keymap.matches(ctx): the keymap's condition on the context
matches(keymap, ctx) == conditional(keymap.cond, ctx)

\* the bindings of keymap whose left-hand side equals combo: combos are equal
\* when they have the same key and the same set of modifiers
lookup(keymap, combo) ==
    SelectSeq(keymap.bindings,
              LAMBDA b : b.key = combo.key /\ SeqToSet(combo.modifiers) \in b.lhs)

combo_in_keymap(combo, keymap) == lookup(keymap, combo) # <<>>

\* mutant: no held keystate is marked spent
mark_spent_mutant(s) == s

\* "for ks in held: if not _output.is_mod_pressed(ks.key): ks.spent = True"
mark_spent(s) ==
    [s EXCEPT !.key_states =
        [i \in DOMAIN @ |->
            IF key_is_pressed(@[i]) /\ ~is_mod_pressed(s, @[i].key)
            THEN [@[i] EXCEPT !.spent = TRUE]
            ELSE @[i]]]

\* mutant: the active keymap list is kept whatever the executor signals
reset_keymaps_mutant(r) == r.s

\* "if reset_mode: _active_keymaps = None", r being what handle_commands
\* returned
reset_keymaps(r) ==
    IF r.s.exc = "" /\ r.reset THEN [r.s EXCEPT !.active_keymaps = ActiveNone]
    ELSE r.s

\* mutant: the suspended keys are not written before the escaped key
escape_combo_mutant(s, key, action) ==
    IF is_key_modifier(key) \/ is_released(action)
    THEN send_key_action(s, key, action)
    ELSE [send_key_action(s, key, action) EXCEPT !.active_keymaps = ActiveNone]

\* "if _active_keymaps is escape_next_combo": modifier keys and releases are
\* written and leave the mode armed, any other event ends it
escape_combo(s, key, action) ==
    IF is_key_modifier(key) \/ is_released(action)
    THEN send_key_action(s, key, action)
    ELSE [send_key_action(resume_keys(s), key, action)
             EXCEPT !.active_keymaps = ActiveNone]

transform_key(c, s, key, action, ctx) ==
    IF wndw_ctxt_error(ctx) THEN send_key_action(resume_keys(s), key, action)
    ELSE
    LET combo == Combo(get_pressed_mods(s), key)
    IN IF s.active_keymaps.t = "escape_next_key"
       THEN [send_key_action(s, key, action) EXCEPT !.active_keymaps = ActiveNone]
       ELSE IF s.active_keymaps.t = "escape_next_combo"
       THEN escape_combo(s, key, action)
       ELSE
       LET is_top_level == s.active_keymaps.t = "None"
           ids == IF is_top_level
                  THEN SelectSeq(top_level_keymaps(c),
                                 LAMBDA i : matches(KEYMAPS(c)[i], ctx))
                  ELSE s.active_keymaps.ids
           s1 == [s EXCEPT !.active_keymaps = ActiveList(ids)]
           found == SelectSeq(ids, LAMBDA i : combo_in_keymap(combo, KEYMAPS(c)[i]))
       IN IF found # <<>>
          THEN LET commands == lookup(KEYMAPS(c)[found[1]], combo)[1].commands
               IN reset_keymaps(handle_commands(c, mark_spent(s1), commands, key,
                                                action, ctx, combo))
          ELSE LET s2 == IF is_top_level
                         THEN send_key_action_fast(resume_keys(s1), key, action)
                         ELSE s1
               IN [s2 EXCEPT !.active_keymaps = ActiveNone]

(***************************************************************************)
(* transform.py: on_key                                                    *)
(***************************************************************************)

\* phase 1: the cache exists.  done: the cache answered the event.
\* on_key_replayed: what follows the replay attempt, r being its outcome
on_key_replayed(r, key, action) ==
    IF r.hit \/ r.s.exc # "" THEN [s |-> r.s, done |-> TRUE]
       ELSE IF just_pressed(action) /\ ~is_key_modifier(key)
            THEN [s |-> IF r.s.repeat_cache.inkey # key
                        THEN invalidate_repeat_cache(r.s) ELSE r.s,
                  done |-> FALSE]
            ELSE IF is_released(action) /\ key = r.s.repeat_cache.inkey
                 THEN [s |-> invalidate_repeat_cache(r.s), done |-> FALSE]
                 ELSE [s |-> r.s, done |-> FALSE]

on_key_cache(s, key, action) ==
    IF ~s.repeat_cache.set THEN [s |-> s, done |-> FALSE]
    ELSE on_key_replayed(IF is_repeat(action)
                         THEN try_replay_cached_repeat(s, key, action)
                         ELSE [s |-> s, hit |-> FALSE], key, action)

\* phase 2: the first repeat populates the cache from the PRESS tracking
\* (replay_populated: "now replay from newly populated cache")
replay_done(r) == [s |-> r.s, done |-> r.hit \/ r.s.exc # ""]

replay_populated(s1, key, action) ==
    replay_done(IF s1.repeat_cache.set THEN try_replay_cached_repeat(s1, key, action)
                ELSE [s |-> s1, hit |-> FALSE])

on_key_first_repeat(c, s, key, action) ==
    IF ~(is_repeat(action) /\ ~s.first_repeat_processed /\ ~is_key_modifier(key))
    THEN [s |-> s, done |-> FALSE]
    ELSE replay_populated(
            populate_repeat_cache(c, [s EXCEPT !.first_repeat_processed = TRUE],
                                  key, action), key, action)

\* phase 3: a different key pressed, or the awaited key released
on_key_awaiting(s, key, action) ==
    LET forget == clear_cache_tracking(
                     [s EXCEPT !.awaiting_first_repeat_key = None,
                               !.first_repeat_processed = FALSE])
    IN IF just_pressed(action) /\ ~is_key_modifier(key)
       THEN IF s.awaiting_first_repeat_key # None /\ key # s.awaiting_first_repeat_key
            THEN forget ELSE s
       ELSE IF is_released(action) /\ s.awaiting_first_repeat_key = key
            THEN forget ELSE s

\* phase 4: a key press resolves every suspended, pressed multi-key as its
\* modifier; body of the loop for the keystate at position i
resolve_one(s, i) ==
    LET ks == s.key_states[i]
    IN IF ~(ks.is_multi /\ ks.suspended /\ key_is_pressed(ks)) THEN s
       ELSE LET ks1 == [resolve_as_modifier(ks) EXCEPT !.suspended = FALSE,
                              !.other_key_pressed_while_held = TRUE]
                s1 == [s EXCEPT !.key_states[i] = ks1]
            IN IF ~ks1.exerted_on_output
               THEN [send_key_action(s1, ks1.key, PRESS)
                        EXCEPT !.key_states[i].exerted_on_output = TRUE]
               ELSE s1

RECURSIVE resolve_loop(_, _)
resolve_loop(s, i) ==
    IF i > Len(s.key_states) THEN s ELSE resolve_loop(resolve_one(s, i), i + 1)

\* the end of the release branch: update_pressed_states, unless an exception
\* has ended the handler
on_key_released(s2, inkey) ==
    IF s2.exc # "" THEN s2 ELSE update_pressed_states(s2, inkey)

\* phase 5: dispatch on the kind of key
on_key_dispatch(c, s, inkey, key, action, ctx) ==
    LET keystate == Cur(s, inkey)
    IN IF is_key_modifier(key) THEN on_mod_key(c, s, inkey, ctx)
       ELSE IF keystate.is_multi /\ just_pressed(action)
       THEN LET s1 == SetCur(s, inkey, [keystate EXCEPT !.suspended = TRUE,
                                           !.other_key_pressed_while_held = FALSE])
            IN suspend_keys(update_pressed_states(s1, inkey), TIMEOUTS(c).multipurpose)
       ELSE IF keystate.is_multi /\ is_repeat(action) /\ keystate.suspended THEN s
       ELSE IF is_released(action)
       THEN LET s1 == IF is_key_pressed(s, key) THEN send_key_action(s, key, action) ELSE s
                resolved == IF keystate.other_key_pressed_while_held
                            THEN resolve_as_modifier(keystate)
                            ELSE resolve_as_momentary(keystate)
            IN on_key_released(
                  IF ~keystate.is_multi THEN s1
                  ELSE transform_key(c, resume_keys(SetCur(s1, inkey, resolved)),
                                     key, action, ctx), inkey)
       ELSE transform_key(c, s, key, action, ctx)

\* phase 4, entered on the PRESS of a key that is not a multi-key
on_key_resolve(s3, inkey, action) ==
    IF just_pressed(action) /\ ~Cur(s3, inkey).is_multi
    THEN resolve_loop(s3, 1) ELSE s3

\* the end of on_key: a PRESS latches the awaited key and _last_key
on_key_latch(s5, key, action) ==
    LET s6 == IF just_pressed(action) /\ ~is_key_modifier(key)
              THEN [s5 EXCEPT !.awaiting_first_repeat_key = key] ELSE s5
    IN IF s5.exc # "" THEN s5
       ELSE IF just_pressed(action) THEN [s6 EXCEPT !.last_key = key] ELSE s6

\* phases 3 to 5, p2 being the outcome of phase 2
on_key_uncached(c, p2, inkey, key, action, ctx) ==
    IF p2.done THEN p2.s
    ELSE on_key_latch(
            on_key_dispatch(c,
                on_key_resolve(on_key_awaiting(p2.s, key, action), inkey, action),
                inkey, key, action, ctx),
            key, action)

\* phase 2 and the rest, p1 being the outcome of phase 1
on_key_missed(c, p1, inkey, key, action, ctx) ==
    IF p1.done THEN p1.s
    ELSE on_key_uncached(c, on_key_first_repeat(c, p1.s, key, action),
                         inkey, key, action, ctx)

on_key(c, s, inkey, ctx) ==
    LET key == Cur(s, inkey).key
        action == Cur(s, inkey).action
    IN on_key_missed(c, on_key_cache(s, key, action), inkey, key, action, ctx)

(***************************************************************************)
(* transform.py: on_event, for an EV_KEY event of a grabbed device.        *)
(* answer is what the window-context provider returns if it is queried.    *)
(***************************************************************************)

\* the KeyContext that on_event builds for the event
event_ctx(s, action, answer) ==
    IF is_released(action) \/ is_repeat(action)
    THEN from_cache(PyDict(s.last_press_ctx_data))
    ELSE KeyContext(answer)

on_event(c, s, inkey, action, answer) ==
    LET s1 == IF \/ s.awaiting_first_repeat_key = None
                 \/ s.first_repeat_processed
                 \/ inkey # s.awaiting_first_repeat_key
              THEN clear_cache_tracking(s) ELSE s
    IN IF ignore_repeating_keys(c) /\ is_repeat(action)
       THEN send_event(s1, inkey, action)
       ELSE
       LET s2 == find_keystate_or_new(s1, inkey, action)
           ctx == event_ctx(s2, action, answer)
           s3 == IF just_pressed(action)
                 THEN [s2 EXCEPT !.last_press_ctx_data =
                          [wm_class |-> wm_class(ctx), wm_name |-> wm_name(ctx),
                           wndw_ctxt_error |-> ctx.wndw_ctxt_error]]
                 ELSE s2
           k0 == Cur(s3, inkey)
           k1 == IF wndw_ctxt_error(ctx) /\ k0.key = None
                 THEN [k0 EXCEPT !.key = k0.inkey] ELSE k0
           k2 == IF k1.key = None
                 THEN apply_multi_modmap(c, apply_modmap(c, k1, ctx), ctx) ELSE k1
       IN on_key(c, SetCur(s3, inkey, k2), inkey, ctx)

\* on_key without its two cache blocks (lines 706-731): every event goes
\* through the dispatch, as it does while no cache exists and the first
\* repeat has been latched
on_key_full(c, s, inkey, ctx) ==
    on_key_uncached(c, [s |-> s, done |-> FALSE], inkey,
                    Cur(s, inkey).key, Cur(s, inkey).action, ctx)

\* on_event with on_key_full in the place of on_key
on_event_full(c, s, inkey, action, answer) ==
    LET s1 == IF \/ s.awaiting_first_repeat_key = None
                 \/ s.first_repeat_processed
                 \/ inkey # s.awaiting_first_repeat_key
              THEN clear_cache_tracking(s) ELSE s
    IN IF ignore_repeating_keys(c) /\ is_repeat(action)
       THEN send_event(s1, inkey, action)
       ELSE
       LET s2 == find_keystate_or_new(s1, inkey, action)
           ctx == event_ctx(s2, action, answer)
           k0 == Cur(s2, inkey)
           k1 == IF wndw_ctxt_error(ctx) /\ k0.key = None
                 THEN [k0 EXCEPT !.key = k0.inkey] ELSE k0
           k2 == IF k1.key = None
                 THEN apply_multi_modmap(c, apply_modmap(c, k1, ctx), ctx) ELSE k1
       IN on_key_full(c, SetCur(s2, inkey, k2), inkey, ctx)

(***************************************************************************)
(* The state machine: the callbacks of the event loop                      *)
(***************************************************************************)
NoKeystate == Keystate(None, None)

\* the engine state at the start of a callback
State ==
    [key_states |-> key_states, cur |-> NoKeystate, sticky |-> sticky,
     active_keymaps |-> active_keymaps, suspend_timer |-> suspend_timer,
     last_suspend_timeout |-> last_suspend_timeout, last_key |-> last_key,
     repeat_cache |-> repeat_cache,
     modifiers_changed_since_cache |-> cache_flags.modifiers_changed_since_cache,
     awaiting_first_repeat_key |-> cache_flags.awaiting_first_repeat_key,
     first_repeat_processed |-> cache_flags.first_repeat_processed,
     last_press_ctx_data |-> last_press_ctx_data,
     pressed_keys |-> output.pressed_keys,
     pressed_modifier_keys |-> output.pressed_modifier_keys,
     suspended_mod_keys |-> output.suspended_mod_keys,
     suspend_depth |-> output.suspend_depth,
     last_output_for_cache |-> output.last_output_for_cache,
     timers |-> timers, written |-> written, closed |-> closed, exc |-> "",
     dumped |-> FALSE]

\* the engine state at the end of a callback
Commit(s) ==
    /\ key_states' = s.key_states
    /\ sticky' = s.sticky
    /\ active_keymaps' = s.active_keymaps
    /\ suspend_timer' = s.suspend_timer
    /\ last_suspend_timeout' = s.last_suspend_timeout
    /\ last_key' = s.last_key
    /\ repeat_cache' = s.repeat_cache
    /\ cache_flags' =
          [modifiers_changed_since_cache |-> s.modifiers_changed_since_cache,
           awaiting_first_repeat_key |-> s.awaiting_first_repeat_key,
           first_repeat_processed |-> s.first_repeat_processed]
    /\ last_press_ctx_data' = s.last_press_ctx_data
    /\ output' =
          [pressed_keys |-> s.pressed_keys,
           pressed_modifier_keys |-> s.pressed_modifier_keys,
           suspended_mod_keys |-> s.suspended_mod_keys,
           suspend_depth |-> s.suspend_depth,
           last_output_for_cache |-> s.last_output_for_cache]
    /\ timers' = s.timers
    /\ written' = s.written
    /\ closed' = s.closed

\* what a KeyContext shows through its three properties
Seen(ctx) ==
    [wm_class |-> wm_class(ctx), wm_name |-> wm_name(ctx),
     err |-> wndw_ctxt_error(ctx)]

NoSeen == [wm_class |-> None, wm_name |-> None, err |-> FALSE]

\* what is remembered of the PRESS of a key that is down: the context the
\* engine saw, the position of the PRESS in input, the length of the output
\* before it, and the time
NoPress == [seen |-> NoSeen, at |-> 0, out |-> 0, t |-> 0]

NoEvent ==
    [key |-> None, action |-> None, seen |-> NoSeen, press |-> NoPress,
     queried |-> FALSE, exc |-> "", before |-> <<>>, out |-> 0,
     dumped |-> FALSE]

KeyEvents == SelectSeq(input, LAMBDA e : e.action \in Action)

(***************************************************************************)
(* devices.py, input.py: the device registry under hotplug                 *)
(***************************************************************************)
\* the names inotify reports under /dev/input: one event device node, and one
\* node that is not an event device and is never opened
EventNames == <<"event5">>
Names == SeqToSet(EventNames) \cup {"mice"}

\* event_name.startswith("event")
startswith_event(name) == name \in SeqToSet(EventNames)

\* the hardware that may sit behind a node: two different keyboards and a mouse
Hardware == {"kbdA", "kbdB", "mouse"}

\* a node of /dev/input: absent, or a device that the process may or may not
\* yet open
NoFile == [info |-> None, readable |-> FALSE]
Files == {NoFile} \cup {[info |-> i, readable |-> r] : i \in Hardware, r \in BOOLEAN}

\* evdev.InputDevice(filename); two InputDevice objects are equal when their
\* info and their path are
InputDevice(filename, file) == [path |-> filename, info |-> file.info]

\* Devices.is_keyboard
is_keyboard(device) == device.info \in {"kbdA", "kbdB"}

\* DeviceFilter.filter with no --devices option: none of the devices is the
\* virtual output device
filter(device) == is_keyboard(device)

\* DeviceRegistry.cares_about
cares_about(device) == filter(device)

\* DeviceRegistry.__contains__
in_registry(devs, device) == \E i \in DOMAIN devs : devs[i] = device

\* DeviceRegistry.grab: the device is appended to the registry
grab(devs, device) == Append(devs, device)

\* Devices.all(): the event device nodes that exist at start-up
Devices_all(fs) ==
    LET present == SelectSeq(EventNames, LAMBDA n : fs[n] # NoFile)
    IN [i \in DOMAIN present |-> InputDevice(present[i], fs[present[i]])]

\* /dev/input at start-up: permissions are in order
InitialFs ==
    {fs \in [SeqToSet(EventNames) -> Files] :
        \A n \in SeqToSet(EventNames) : fs[n] = NoFile \/ fs[n].readable}

NoNotify == [mask |-> None, name |-> None]
NewTask == [event |-> NoNotify, loop_cnt |-> 1]

NoHotplug ==
    [fs |-> [n \in SeqToSet(EventNames) |-> NoFile], pending |-> <<>>,
     notify_events |-> <<>>, add_timer |-> FALSE, tasks |-> <<>>, grabs |-> {},
     notified |-> 0]

\* DeviceRegistry.autodetect: every matching keyboard is grabbed and appended to
\* the registry; the configurations of the key engine run with one keyboard
\* (one of them with two), a direct call of the output and the startup
\* injection with none
autodetect(c) ==
    IF c = "hotplug"
    THEN {SelectSeq(Devices_all(fs), filter) : fs \in InitialFs}
    ELSE IF c = "devices" THEN {[i \in 1..n |-> i] : n \in 0..MaxDevices}
    ELSE IF c \in {"send_combo", "wakeup"} THEN {<<>>}
    ELSE IF c = "two_keyboards" THEN {<<1, 2>>}
    ELSE {<<1>>}

\* no direct call: Output.__init__, both sets empty and suspend_depth 0
NoCall ==
    [combo |-> NoCombo, pressed_keys |-> {}, suspend_depth |-> 0, done |-> FALSE,
     exc |-> ""]

\* the keys that the output may hold pressed when send_combo is called
SendComboKeys == {"LEFT_CTRL", "RIGHT_CTRL", "LEFT_SHIFT", "LEFT_ALT", "A"}

\* the combos send_combo is called with
SendComboCombos ==
    {Combo(<<>>, "A"), Combo(<<"CONTROL">>, "TAB"), Combo(<<"CONTROL", "SHIFT">>, "TAB"),
     Combo(<<"L_CONTROL">>, "A"), Combo(<<"L_CONTROL", "CONTROL">>, "TAB"),
     Combo(<<"R_CONTROL", "ALT">>, "A")}

\* the direct calls of Output.send_combo: every combo on every pressed state,
\* outside and inside allow_suspend
Calls(c) ==
    IF c = "send_combo"
    THEN {[combo |-> k, pressed_keys |-> P, suspend_depth |-> d, done |-> FALSE,
           exc |-> ""] : k \in SendComboCombos, P \in SUBSET SendComboKeys, d \in 0..1}
    ELSE {NoCall}

\* DeviceRegistry.ungrab: list.remove takes the first occurrence of the device
\* out of the list
ungrab(devs, device) ==
    RemoveAt(devs, CHOOSE i \in DOMAIN devs :
                      devs[i] = device /\ \A j \in 1..(i - 1) : devs[j] # device)

\* the for loop of DeviceRegistry.ungrab_all, which walks the list by index
\* while ungrab removes from it
RECURSIVE ungrab_all_from(_, _, _)
ungrab_all_from(devs, i, ungrabbed) ==
    IF i > Len(devs) THEN [devices |-> devs, ungrabbed |-> ungrabbed]
    ELSE ungrab_all_from(ungrab(devs, devs[i]), i + 1, Append(ungrabbed, devs[i]))

ungrab_all(devs) == ungrab_all_from(devs, 1, <<>>)

\* the key writes of a callback, as steps of the shutdown
Writes(w, from) ==
    [i \in 1..(Len(w) - from) |-> <<"write", w[from + i][1], w[from + i][2]>>]

Init ==
    /\ cfg \in CfgNames
    /\ key_states = <<>>
    /\ sticky = <<>>
    /\ active_keymaps = ActiveNone
    /\ suspend_timer = 0
    /\ last_suspend_timeout = 0
    /\ last_key = None
    /\ repeat_cache = NoCache
    /\ cache_flags = [modifiers_changed_since_cache |-> FALSE,
                      awaiting_first_repeat_key |-> None,
                      first_repeat_processed |-> FALSE]
    /\ last_press_ctx_data =
          [wm_class |-> "", wm_name |-> "", wndw_ctxt_error |-> PyBool(FALSE)]
    /\ call \in Calls(cfg)
    /\ output = [pressed_keys |-> call.pressed_keys,
                 pressed_modifier_keys |->
                     {k \in call.pressed_keys : is_key_modifier(k)},
                 suspended_mod_keys |-> <<>>, suspend_depth |-> call.suspend_depth,
                 last_output_for_cache |-> NoOutput]
    /\ timers = <<>>
    /\ written = <<>>
    /\ closed = FALSE
    /\ devices \in autodetect(cfg)
    /\ hotplug \in IF cfg = "hotplug"
                   THEN {[NoHotplug EXCEPT !.fs = fs] :
                            fs \in {f \in InitialFs :
                                       SelectSeq(Devices_all(f), filter) = devices}}
                   ELSE {NoHotplug}
    /\ teardown = <<>>
    /\ held = [k \in {} |-> NoPress]
    /\ input = <<>>
    /\ queries = 0
    /\ now = 0
    /\ last_event = NoEvent

\* config_api.DUMP_DIAGNOSTICS_KEY, config_api.EMERGENCY_EJECT_KEY
DUMP_DIAGNOSTICS_KEY == "F15"
EMERGENCY_EJECT_KEY == "F16"

\* the call v() of a Python value: a bool is not callable
PyCall(v) ==
    IF v \in BOOLEAN THEN [exc |-> "TypeError", v |-> FALSE]
    ELSE [exc |-> "", v |-> v]

\* transform.dump_diagnostics: the engine state is printed
dump_diagnostics(s) == [s EXCEPT !.dumped = TRUE]

\* input.receive_input for one event of the device: the emergency eject key
\* runs shutdown() (exit(0) follows), the diagnostics key tests
\* action.just_pressed(), every other key goes to on_event
receive_input(c, s, inkey, action, answer) ==
    IF inkey = EMERGENCY_EJECT_KEY THEN output_shutdown(s)
    ELSE IF inkey = DUMP_DIAGNOSTICS_KEY
    THEN LET r == PyCall(just_pressed(action))
         IN IF r.exc # "" THEN [s EXCEPT !.exc = r.exc]
            ELSE IF r.v THEN dump_diagnostics(s)
            ELSE s
    ELSE on_event(c, s, inkey, action, answer)

\* exit(0) after shutdown(): SystemExit leaves loop.run_forever() for the finally
\* block of main_loop, which runs shutdown() once more and then
\* registry.ungrab_all().  s1 is the engine after the first shutdown(), from
\* the length of the output before it.
main_loop_finally(s1, from, devs) ==
    LET s2 == output_shutdown(s1)
        r == ungrab_all(devs)
    IN [s |-> s2, devices |-> r.devices,
        teardown |-> Writes(s1.written, from) \o << <<"close">> >>
                       \o Writes(s2.written, Len(s1.written)) \o << <<"close">> >>
                       \o [i \in DOMAIN r.ungrabbed |-> <<"ungrab", r.ungrabbed[i]>>]]

\* the end of a reader callback: the engine state is kept, and the finally
\* block of main_loop has run if the callback ended in exit(0)
Return(s) ==
    IF s.closed
    THEN \E f \in {main_loop_finally(s, Len(written), devices)} :
            /\ Commit(f.s)
            /\ devices' = f.devices
            /\ teardown' = f.teardown
    ELSE /\ Commit(s)
         /\ UNCHANGED <<devices, teardown>>

\* Output.send_combo called on the output as it stands
SendCombo ==
    /\ ~closed
    /\ ~call.done
    /\ call.combo # NoCombo
    /\ \E s \in {send_combo(State, call.combo)} :
          /\ Commit(s)
          /\ call' = [call EXCEPT !.done = TRUE, !.exc = s.exc]
    /\ UNCHANGED <<hotplug, cfg, devices, teardown, held, input, queries, now, last_event>>

\* input.receive_input: a key event of a grabbed keyboard.  A key is pressed
\* when it is up, repeated and released when it is down; the emergency eject
\* key may have been down since before the keyboard was grabbed.
KeyEvent ==
    /\ ~closed
    /\ devices # <<>>
    /\ Len(KeyEvents) < MaxEvents
    /\ \E inkey \in Config(cfg).inkeys, action \in Config(cfg).actions,
         answer \in Config(cfg).windows :
          /\ \/ (action = PRESS) = (inkey \notin DOMAIN held)
             \/ inkey = EMERGENCY_EJECT_KEY
             \/ (action = PRESS /\ Len(devices) > 1)
          /\ \E s \in {receive_input(cfg, State, inkey, action, answer)} :
             LET reserved == inkey \in {DUMP_DIAGNOSTICS_KEY, EMERGENCY_EJECT_KEY}
                 processed == ~reserved /\ ~(ignore_repeating_keys(cfg) /\ is_repeat(action))
                 queried == ~reserved /\ action = PRESS
                 ctx == event_ctx(State, action, answer)
                 pressed == [seen |-> IF reserved THEN NoSeen ELSE Seen(ctx),
                             at |-> Len(input) + 1,
                             out |-> Len(written), t |-> now]
             IN /\ Return(s)
                /\ cfg' = cfg
                /\ hotplug' = hotplug
                /\ call' = call
                /\ input' = Append(input,
                                   [action |-> action, key |-> inkey,
                                    wm_class |-> IF queried THEN answer.wm_class
                                                 ELSE None,
                                    out |-> Len(s.written)])
                /\ queries' = IF queried THEN queries + 1 ELSE queries
                /\ held' = CASE action = PRESS ->
                                   [k \in DOMAIN held \cup {inkey} |->
                                       IF k = inkey THEN pressed ELSE held[k]]
                             [] action = RELEASE ->
                                   [k \in DOMAIN held \ {inkey} |-> held[k]]
                             [] OTHER -> held
                /\ now' = now
                /\ last_event' =
                      [key |-> inkey, action |-> action,
                       seen |-> IF processed THEN Seen(ctx) ELSE NoSeen,
                       press |-> IF inkey \in DOMAIN held /\ action # PRESS
                                 THEN held[inkey] ELSE pressed,
                       queried |-> queried, exc |-> s.exc,
                       before |-> key_states, out |-> Len(written),
                       dumped |-> s.dumped]

\* input.wakeup_output: modifier_keys and keys_to_reset
modifier_keys ==
    <<"LEFT_SHIFT", "RIGHT_SHIFT", "LEFT_CTRL", "RIGHT_CTRL", "LEFT_ALT", "RIGHT_ALT",
      "LEFT_META", "RIGHT_META">>

keys_to_reset ==
    <<"LEFT_SHIFT", "RIGHT_SHIFT", "LEFT_CTRL", "RIGHT_CTRL", "LEFT_ALT", "RIGHT_ALT",
      "LEFT_META", "RIGHT_META", "CAPSLOCK", "NUMLOCK", "SCROLLLOCK",
      "F1", "F2", "F3", "F4", "F5", "F6", "F7", "F8", "F9", "F10", "F11", "F12",
      "GRAVE", "KEY_1", "KEY_2", "KEY_3", "KEY_4", "KEY_5", "KEY_6", "KEY_7", "KEY_8",
      "KEY_9", "KEY_0", "MINUS", "EQUAL", "BACKSPACE",
      "TAB", "Q", "W", "E", "R", "T", "Y", "U", "I", "O", "P",
      "LEFT_BRACE", "RIGHT_BRACE", "BACKSLASH",
      "A", "S", "D", "F", "G", "H", "J", "K", "L", "SEMICOLON", "APOSTROPHE", "ENTER",
      "Z", "X", "C", "V", "B", "N", "M", "COMMA", "DOT", "SLASH",
      "SPACE",
      "ESC", "INSERT", "DELETE", "HOME", "END", "PAGE_UP", "PAGE_DOWN",
      "UP", "DOWN", "LEFT", "RIGHT",
      "KP0", "KP1", "KP2", "KP3", "KP4", "KP5", "KP6", "KP7", "KP8", "KP9",
      "KPASTERISK", "KPMINUS", "KPPLUS", "KPDOT", "KPSLASH", "KPENTER">>

all_keys_to_reset == keys_to_reset \o modifier_keys

\* input.wakeup_output: one turn of its loop, on_event(up, dummy_device) for
\* the next key of all_keys_to_reset, before any device is grabbed
wakeup_output ==
    /\ cfg = "wakeup"
    /\ ~closed
    /\ Len(input) < Len(all_keys_to_reset)
    /\ \E s \in {on_event(cfg, State, all_keys_to_reset[Len(input) + 1], RELEASE,
                          WinFirefox)} :
          /\ Commit(s)
          /\ input' = Append(input, [action |-> RELEASE,
                                     key |-> all_keys_to_reset[Len(input) + 1],
                                     wm_class |-> None, out |-> Len(s.written)])
    /\ UNCHANGED <<hotplug, cfg, devices, teardown, call, held, queries, now, last_event>>

\* time passes while no pending handle is due
Tick ==
    /\ ~closed
    /\ timers # <<>>
    /\ \A i \in DOMAIN timers : timers[i].remaining > 0
    /\ timers' = [i \in DOMAIN timers |-> [timers[i] EXCEPT !.remaining = @ - 1]]
    /\ now' = now + 1
    /\ UNCHANGED <<hotplug, cfg, key_states, sticky, active_keymaps, suspend_timer,
                   last_suspend_timeout, last_key, repeat_cache, cache_flags,
                   last_press_ctx_data, output, written, closed, devices,
                   teardown, call, held, input, queries, last_event>>

\* a due call_later(timeout, resume_keys) handle runs
TimerFires ==
    /\ ~closed
    /\ \E i \in DOMAIN timers :
          /\ timers[i].remaining = 0
          /\ \E s \in {resume_keys([State EXCEPT !.timers = RemoveAt(@, i)])} :
                /\ Commit(s)
                /\ input' = Append(input, [action |-> "TIMER", key |-> None,
                                           wm_class |-> None, out |-> Len(s.written)])
    /\ UNCHANGED <<hotplug, cfg, devices, teardown, call, held, queries, now, last_event>>

\* input.sig_int, input.sig_term: shutdown() stops the loop and runs
\* transform.shutdown -> Output.shutdown, then exit(0)
Shutdown ==
    /\ ~closed
    /\ Return(output_shutdown(State))
    /\ UNCHANGED <<hotplug, cfg, call, held, input, queries, now, last_event>>

Next == KeyEvent \/ Tick \/ TimerFires \/ Shutdown

\* transform.reset_transform: the globals it assigns; _suspend_timer,
\* _last_suspend_timeout, _last_key and the event loop's handles are not among
\* them, and the virtual device is the module's, not the Output object's
reset_transform(s) ==
    [s EXCEPT !.active_keymaps = ActiveNone,
              !.pressed_modifier_keys = {},
              !.pressed_keys = {},
              !.suspended_mod_keys = <<>>,
              !.suspend_depth = 0,
              !.last_output_for_cache = NoOutput,
              !.key_states = <<>>,
              !.sticky = <<>>,
              !.repeat_cache = NoCache,
              !.modifiers_changed_since_cache = FALSE,
              !.awaiting_first_repeat_key = None,
              !.first_repeat_processed = FALSE]

Resets == SelectSeq(input, LAMBDA e : e.action = "RESET")

\* reset_transform() called between two callbacks of the event loop
ResetTransform ==
    /\ cfg = "reset"
    /\ ~closed
    /\ Len(KeyEvents) + Len(Resets) < MaxEvents
    /\ Commit(reset_transform(State))
    /\ input' = Append(input, [action |-> "RESET", key |-> None,
                               wm_class |-> None, out |-> Len(written)])
    /\ UNCHANGED <<hotplug, cfg, devices, teardown, call, held, queries, now, last_event>>

NextReset == Next \/ ResetTransform

(***************************************************************************)
(* input.py: hotplug                                                       *)
(***************************************************************************)
CREATE == "CREATE"
ATTRIB == "ATTRIB"
DELETE == "DELETE"

tries == 9

\* DeviceRegistry.ungrab_by_filename: the for loop walks the list by index
\* while the body removes from it; the node is gone, so device.ungrab() raises
\* OSError, which is swallowed inside the loop before the return is reached
RECURSIVE ungrab_by_filename_from(_, _, _)
ungrab_by_filename_from(devs, filename, i) ==
    IF i > Len(devs) THEN devs
    ELSE IF devs[i].path = filename
         THEN ungrab_by_filename_from(ungrab(devs, devs[i]), filename, i + 1)
         ELSE ungrab_by_filename_from(devs, filename, i + 1)

ungrab_by_filename(devs, filename) == ungrab_by_filename_from(devs, filename, 1)

\* device_change from one await point to the next: event is the notification
\* whose device is being opened (NoNotify at the top of the while loop) and
\* loop_cnt the attempt; the result is the registry, the shared list and the
\* position of the coroutine, NoNotify when it has returned
RECURSIVE device_change(_, _, _, _)
device_change(h, devs, event, loop_cnt) ==
    IF event = NoNotify
    THEN IF h.notify_events = <<>>
         THEN [h |-> h, devices |-> devs, done |-> TRUE, task |-> NewTask]
         ELSE LET popped == [h EXCEPT !.notify_events = Tail(@)]
              IN IF ~startswith_event(Head(h.notify_events).name)
                 THEN device_change(popped, devs, NoNotify, 1)
                 ELSE device_change(popped, devs, Head(h.notify_events), 1)
    ELSE LET filename == event.name
             file == h.fs[filename]
             device == InputDevice(filename, file)
         IN CASE file = NoFile ->
                    device_change(h, ungrab_by_filename(devs, filename), NoNotify, 1)
              [] file # NoFile /\ ~file.readable ->
                    IF loop_cnt = tries
                    THEN device_change(h, devs, NoNotify, 1)
                    ELSE [h |-> h, devices |-> devs, done |-> FALSE,
                          task |-> [event |-> event, loop_cnt |-> loop_cnt + 1]]
              [] OTHER ->
                    IF event.mask = DELETE
                    THEN device_change(h, IF in_registry(devs, device)
                                          THEN ungrab(devs, device) ELSE devs,
                                       NoNotify, 1)
                    ELSE IF ~in_registry(devs, device) /\ cares_about(device)
                    THEN device_change(
                            [h EXCEPT !.grabs = @ \cup {[device |-> device,
                                                         registry |-> devs]}],
                            grab(devs, device), NoNotify, 1)
                    ELSE device_change(h, devs, NoNotify, 1)

HotplugUnchanged ==
    UNCHANGED <<cfg, key_states, sticky, active_keymaps, suspend_timer,
                last_suspend_timeout, last_key, repeat_cache, cache_flags,
                last_press_ctx_data, output, timers, written, closed, teardown,
                call, held, input, queries, now, last_event>>

\* the kernel queues one notification on the inotify descriptor
Notify(h, mask, name) ==
    [h EXCEPT !.pending = Append(@, [mask |-> mask, name |-> name]),
              !.notified = @ + 1]

\* a device is plugged in: its node appears, readable or not yet
Plug ==
    /\ cfg = "hotplug"
    /\ hotplug.notified < MaxNotified
    /\ \E name \in SeqToSet(EventNames), info \in Hardware, readable \in BOOLEAN :
          /\ hotplug.fs[name] = NoFile
          /\ hotplug' = Notify([hotplug EXCEPT !.fs[name] =
                                   [info |-> info, readable |-> readable]],
                               CREATE, name)
    /\ UNCHANGED devices
    /\ HotplugUnchanged

\* udev changes the permissions of a node
Attrib ==
    /\ cfg = "hotplug"
    /\ hotplug.notified < MaxNotified
    /\ \E name \in SeqToSet(EventNames) :
          /\ hotplug.fs[name] # NoFile
          /\ hotplug' = Notify([hotplug EXCEPT !.fs[name].readable = TRUE],
                               ATTRIB, name)
    /\ UNCHANGED devices
    /\ HotplugUnchanged

\* a device is unplugged: its node disappears
Unplug ==
    /\ cfg = "hotplug"
    /\ hotplug.notified < MaxNotified
    /\ \E name \in SeqToSet(EventNames) :
          /\ hotplug.fs[name] # NoFile
          /\ hotplug' = Notify([hotplug EXCEPT !.fs[name] = NoFile], DELETE, name)
    /\ UNCHANGED devices
    /\ HotplugUnchanged

\* a node that is not an event device changes
OtherNode ==
    /\ cfg = "hotplug"
    /\ hotplug.notified < MaxNotified
    /\ \E name \in Names \ SeqToSet(EventNames), mask \in {CREATE, ATTRIB, DELETE} :
          hotplug' = Notify(hotplug, mask, name)
    /\ UNCHANGED devices
    /\ HotplugUnchanged

\* input._inotify_handler: everything readable is appended to _notify_events
\* and the 0.5 s timer is cancelled and armed again
inotify_handler ==
    /\ cfg = "hotplug"
    /\ hotplug.pending # <<>>
    /\ hotplug' = [hotplug EXCEPT !.notify_events = @ \o hotplug.pending,
                                  !.pending = <<>>,
                                  !.add_timer = TRUE]
    /\ UNCHANGED devices
    /\ HotplugUnchanged

\* the timer fires: device_change_task creates a task on the shared list
device_change_task ==
    /\ cfg = "hotplug"
    /\ hotplug.add_timer
    /\ hotplug' = [hotplug EXCEPT !.add_timer = FALSE, !.tasks = Append(@, NewTask)]
    /\ UNCHANGED devices
    /\ HotplugUnchanged

\* the event loop runs one task up to its next await, or to its end
TaskStep ==
    /\ cfg = "hotplug"
    /\ \E i \in DOMAIN hotplug.tasks :
          \E r \in {device_change(hotplug, devices, hotplug.tasks[i].event,
                                  hotplug.tasks[i].loop_cnt)} :
             /\ devices' = r.devices
             /\ hotplug' = [r.h EXCEPT !.tasks = IF r.done THEN RemoveAt(@, i)
                                                 ELSE [@ EXCEPT ![i] = r.task]]
    /\ HotplugUnchanged

NextHotplug ==
    Plug \/ Attrib \/ Unplug \/ OtherNode \/ inotify_handler \/ device_change_task \/ TaskStep

Spec == Init /\ [][Next]_vars

InitPlain == Init /\ cfg = "plain"
SpecPlain == InitPlain /\ [][Next]_vars
InitModmap == Init /\ cfg = "modmap"
SpecModmap == InitModmap /\ [][Next]_vars
InitMulti == Init /\ cfg = "multi"
SpecMulti == InitMulti /\ [][Next]_vars
InitCondMulti == Init /\ cfg = "cond_multi"
SpecCondMulti == InitCondMulti /\ [][Next]_vars
InitKeymap == Init /\ cfg = "keymap"
SpecKeymap == InitKeymap /\ [][Next]_vars
InitSticky == Init /\ cfg = "sticky"
SpecSticky == InitSticky /\ [][Next]_vars
InitCondKeymap == Init /\ cfg = "cond_keymap"
SpecCondKeymap == InitCondKeymap /\ [][Next]_vars
InitCombos == Init /\ cfg = "combos"
SpecCombos == InitCombos /\ [][Next]_vars
InitBind == Init /\ cfg = "bind"
SpecBind == InitBind /\ [][Next]_vars
InitTimeouts == Init /\ cfg = "timeouts"
SpecTimeouts == InitTimeouts /\ [][Next]_vars
InitRepeat == Init /\ cfg = "repeat"
SpecRepeat == InitRepeat /\ [][Next]_vars
InitBothSides == Init /\ cfg = "both_sides"
SpecBothSides == InitBothSides /\ [][Next]_vars
InitDevices == Init /\ cfg = "devices"
SpecDevices == InitDevices /\ [][Next]_vars
InitReserved == Init /\ cfg = "reserved"
SpecReserved == InitReserved /\ [][Next]_vars
InitFaulty == Init /\ cfg = "faulty"
SpecFaulty == InitFaulty /\ [][Next]_vars
InitMacro == Init /\ cfg = "macro"
SpecMacro == InitMacro /\ [][Next]_vars
InitSendCombo == Init /\ cfg = "send_combo"
SpecSendCombo == InitSendCombo /\ [][SendCombo]_vars
InitNested == Init /\ cfg = "nested"
SpecNested == InitNested /\ [][Next]_vars
InitCover == Init /\ cfg = "cover"
SpecCover == InitCover /\ [][Next]_vars
InitTwoKeyboards == Init /\ cfg = "two_keyboards"
SpecTwoKeyboards == InitTwoKeyboards /\ [][Next]_vars
InitError == Init /\ cfg = "error"
SpecError == InitError /\ [][Next]_vars
InitWakeup == Init /\ cfg = "wakeup"
SpecWakeup == InitWakeup /\ [][wakeup_output]_vars

InitReset == Init /\ cfg = "reset"
SpecReset == InitReset /\ [][NextReset]_vars

InitHotplug == Init /\ cfg = "hotplug"
SpecHotplug == InitHotplug /\ [][NextHotplug]_vars

(***************************************************************************)
(* Streams: the output written so far and the key events received so far   *)
(***************************************************************************)
IsPrefix(a, b) == Len(a) <= Len(b) /\ SubSeq(b, 1, Len(a)) = a

\* what was written after the first n entries of the output
OutSince(n) == SubSeq(written, n + 1, Len(written))

\* the PRESS and RELEASE entries of a stream of <<action, key>>
PressRelease(q) == SelectSeq(q, LAMBDA e : e[1] \in {PRESS, RELEASE})

\* the key events received, as <<action, key>>
InputStream == [i \in DOMAIN KeyEvents |-> <<KeyEvents[i].action, KeyEvents[i].key>>]

Count(q, a, k, n) == Cardinality({i \in 1..n : q[i] = <<a, k>>})

StreamKeys(q) == {q[i][2] : i \in DOMAIN q}

\* C1: on the output, no RELEASE of a key is written without an earlier PRESS
\* of that key that no RELEASE has matched yet
C1_ReleaseFollowsPress ==
    \A k \in StreamKeys(written) : \A n \in DOMAIN written :
        Count(written, RELEASE, k, n) <= Count(written, PRESS, k, n)

\* the last PRESS or RELEASE written for key k is a PRESS
LeftPressed(k) ==
    \E i \in DOMAIN written :
        /\ written[i] = <<PRESS, k>>
        /\ \A j \in (i + 1)..Len(written) : written[j] # <<RELEASE, k>>

\* C2: after shutdown both pressed sets of the output are empty and no key
\* is left pressed on the virtual device
C2_ShutdownReleasesAll ==
    closed => /\ output.pressed_keys = {}
              /\ output.pressed_modifier_keys = {}
              /\ \A k \in StreamKeys(written) : ~LeftPressed(k)

C2_Witness ==
    /\ closed
    /\ sticky # <<>>
    /\ "LEFT_META" \in DOMAIN held
    /\ "LEFT_CTRL" \notin DOMAIN held
    /\ Len(written) > 0
    /\ written[Len(written)] = <<RELEASE, "LEFT_CTRL">>

\* a stream without the PRESS entries of modifier keys
WithoutModPress(q) ==
    SelectSeq(q, LAMBDA e : ~(e[1] = PRESS /\ is_key_modifier(e[2])))

\* a stream without the RELEASE entries of keys that are not modifiers
WithoutKeyRelease(q) ==
    SelectSeq(q, LAMBDA e : ~(e[1] = RELEASE /\ ~is_key_modifier(e[2])))

\* C3 as stated: with no modmap, multi-modmap or keymap, once nothing is
\* suspended the output is the input sequence
C3_PassThrough ==
    (cfg = "plain" /\ ~closed /\ suspend_timer = 0) => written = InputStream

\* C3 amended: the output is the input sequence except that the PRESS of a
\* suspended modifier is held back until the next resume, so that the RELEASE
\* of an ordinary key may be written before it, and nothing else moves:
\* every event but a modifier PRESS is written at once, and leaving out the
\* RELEASEs of ordinary keys the output is a prefix of the input, all of it
\* once nothing is suspended
C3_PassThroughUpToSuspension ==
    (cfg = "plain" /\ ~closed) =>
        /\ WithoutModPress(written) = WithoutModPress(InputStream)
        /\ IsPrefix(WithoutKeyRelease(written), WithoutKeyRelease(InputStream))
        /\ suspend_timer = 0 =>
              WithoutKeyRelease(written) = WithoutKeyRelease(InputStream)

\* an ordinary key was released while a modifier pressed after it was still
\* suspended, and the timer has resumed the modifier since
C3_Witness ==
    /\ cfg = "plain"
    /\ ~closed
    /\ suspend_timer = 0
    /\ InputStream = << <<PRESS, "A">>, <<PRESS, "LEFT_CTRL">>, <<RELEASE, "A">> >>
    /\ written = << <<PRESS, "A">>, <<RELEASE, "A">>, <<PRESS, "LEFT_CTRL">> >>

\* what the unconditional modmap makes of an input key
Modmapped(k) ==
    IF k \in DOMAIN MODMAPS(cfg)[1].mappings THEN MODMAPS(cfg)[1].mappings[k] ELSE k

MappedInput ==
    LET q == PressRelease(InputStream)
    IN [i \in DOMAIN q |-> <<q[i][1], Modmapped(q[i][2])>>]

OnlyModifiers(q) == SelectSeq(q, LAMBDA e : is_key_modifier(e[2]))
OnlyAction(q, a) == SelectSeq(q, LAMBDA e : e[1] = a)

\* C5: with an unconditional modmap and no keymaps, no PRESS or RELEASE of a
\* remapped key k is written; once every key is up and nothing is suspended,
\* every input PRESS and RELEASE has been written under the mapped key; and
\* the modifiers are pressed in input press order and released in input
\* release order
C5_ModmapLaw ==
    (cfg = "modmap" /\ ~closed) =>
        /\ \A k \in StreamKeys(PressRelease(written)) :
              k \notin DOMAIN MODMAPS(cfg)[1].mappings
        /\ (DOMAIN held = {} /\ suspend_timer = 0) =>
              \A k \in StreamKeys(MappedInput) : \A a \in {PRESS, RELEASE} :
                  Count(written, a, k, Len(written))
                     = Count(MappedInput, a, k, Len(MappedInput))
        /\ IsPrefix(OnlyAction(OnlyModifiers(PressRelease(written)), PRESS),
                    OnlyAction(OnlyModifiers(MappedInput), PRESS))
        /\ OnlyAction(OnlyModifiers(PressRelease(written)), RELEASE)
              = OnlyAction(OnlyModifiers(MappedInput), RELEASE)

\* the events a combo puts on an output that holds no key
Bracket(combo) ==
    LET mods == [i \in DOMAIN combo.modifiers |-> get_key(combo.modifiers[i])]
    IN [i \in DOMAIN mods |-> <<PRESS, mods[i]>>]
       \o << <<PRESS, combo.key>>, <<RELEASE, combo.key>> >>
       \o [i \in DOMAIN mods |-> <<RELEASE, Reverse(mods)[i]>>]

\* the length of the output before the callback at position p of input
OutBefore(p) == IF p = 1 THEN 0 ELSE input[p - 1].out

KeysDownBefore(p) ==
    {k \in Config(cfg).inkeys :
        Cardinality({i \in 1..(p - 1) : input[i].action = PRESS /\ input[i].key = k})
          > Cardinality({i \in 1..(p - 1) : input[i].action = RELEASE /\ input[i].key = k})}

\* at position p the PRESS of J in Firefox completes Ctrl+Alt+J, the two
\* modifiers having been pressed just before it with no other key down
ComboAt(p) ==
    /\ p >= 3
    /\ p <= Len(input)
    /\ input[p - 2].action = PRESS
    /\ input[p - 1].action = PRESS
    /\ {input[p - 2].key, input[p - 1].key} = {"LEFT_CTRL", "LEFT_ALT"}
    /\ input[p].action = PRESS
    /\ input[p].key = "J"
    /\ input[p].wm_class = "Firefox"
    /\ KeysDownBefore(p - 2) = {}

\* the output of the keystroke that starts at position p - 2 is the bracket
\* of the right-hand side and nothing else
OnlyTheCombo(p) == OutSince(OutBefore(p - 2)) = Bracket(Combo(<<"CONTROL">>, "TAB"))

\* C4 as stated: however long the modifiers stay down after the combo, only
\* the events of the right-hand side are written for the keystroke
C4_OnlyRhsWritten ==
    (cfg = "keymap" /\ ~closed) =>
        \A p \in DOMAIN input :
            (/\ ComboAt(p)
             /\ \A i \in (p + 1)..Len(input) : input[i].action \in {RELEASE, "TIMER"})
            => OnlyTheCombo(p)

\* C4 amended: the same when the suspend timer does not fire before the
\* modifiers are released
C4_OnlyRhsWrittenBeforeTimeout ==
    (cfg = "keymap" /\ ~closed) =>
        \A p \in DOMAIN input :
            (/\ ComboAt(p)
             /\ \A i \in (p + 1)..Len(input) : input[i].action = RELEASE)
            => OnlyTheCombo(p)

\* the keystroke of test_multiple_keys_at_once, complete
C4_Witness ==
    /\ cfg = "keymap"
    /\ ~closed
    /\ ComboAt(3)
    /\ Len(input) = 6
    /\ \A i \in 4..6 : input[i].action = RELEASE
    /\ written = Bracket(Combo(<<"CONTROL">>, "TAB"))

\* the KeyContext that shows as seen
SeenCtx(seen) ==
    [wm_class |-> seen.wm_class, wm_name |-> seen.wm_name,
     wndw_ctxt_error |-> PyBool(seen.err)]

\* the keystate that the PRESS of inkey gets in the context seen
Pressed(inkey, seen) ==
    IF seen.err THEN [Keystate(inkey, PRESS) EXCEPT !.key = inkey]
    ELSE apply_multi_modmap(cfg, apply_modmap(cfg, Keystate(inkey, PRESS), SeenCtx(seen)),
                            SeenCtx(seen))

\* a dual-role keystate that nothing has resolved yet
Unresolved(ks) == ks.is_multi /\ ks.suspended /\ key_is_pressed(ks)

\* in the stream q a PRESS of hold comes before every entry for key
PressedBefore(q, hold, key) ==
    \E n \in DOMAIN q :
        /\ q[n] = <<PRESS, hold>>
        /\ \A m \in 1..n : q[m][2] # key

\* the last key event was the PRESS of a key, and what it wrote puts the hold
\* key of every dual-role key that was unresolved before anything for that key
HoldAtPress ==
    \A i \in DOMAIN last_event.before :
        Unresolved(last_event.before[i]) =>
            PressedBefore(OutSince(last_event.out), last_event.before[i].multikey,
                          Pressed(last_event.key, last_event.press.seen).key)

\* the last key event was the RELEASE of a dual-role key whose PRESS was
\* directly followed by the PRESS at input[at + 1]: it wrote the RELEASE of
\* the hold key last, and the tap key was never written
HoldAtRelease ==
    LET role == Pressed(last_event.key, last_event.press.seen)
        out == OutSince(last_event.press.out)
    IN /\ out # <<>>
       /\ out[Len(out)] = <<RELEASE, role.multikey>>
       /\ \A n \in DOMAIN out : out[n][2] # role.key

IsDualRole(inkey, seen) == Pressed(inkey, seen).is_multi

NextIsPress(at, dual) ==
    /\ at + 1 < Len(input)
    /\ input[at + 1].action = PRESS
    /\ dual \/ ~IsDualRole(input[at + 1].key,
                           [wm_class |-> input[at + 1].wm_class,
                            wm_name |-> input[at + 1].wm_class, err |-> FALSE])

OnlyKeys(q, ks) == SelectSeq(q, LAMBDA e : e[2] \in ks)

\* since the PRESS of the dual-role key just released, exactly one PRESS and
\* then one RELEASE of its tap key were written, and nothing for its hold key
TapWritten ==
    LET role == Pressed(last_event.key, last_event.press.seen)
    IN OnlyKeys(OutSince(last_event.press.out), {role.key, role.multikey})
          = << <<PRESS, role.key>>, <<RELEASE, role.key>> >>

C8_HoldOnTimeout ==
    ~closed =>
        /\ \A m \in DOMAIN held :
              (/\ DOMAIN held = {m}
               /\ IsDualRole(m, held[m].seen)
               /\ Len(input) = held[m].at + 1
               /\ input[Len(input)].action = "TIMER")
              => OutSince(held[m].out) = << <<PRESS, Pressed(m, held[m].seen).multikey>> >>
        /\ (/\ last_event.action = RELEASE
            /\ IsDualRole(last_event.key, last_event.press.seen)
            /\ DOMAIN held = {}
            /\ Len(input) = last_event.press.at + 2
            /\ input[Len(input) - 1].action = "TIMER")
           => LET hold == Pressed(last_event.key, last_event.press.seen).multikey
              IN OutSince(last_event.press.out) = << <<PRESS, hold>>, <<RELEASE, hold>> >>

C8_Witness ==
    /\ cfg = "multi"
    /\ ~closed
    /\ Len(input) = 3
    /\ input[1].action = PRESS /\ input[1].key = "CAPSLOCK"
    /\ input[2].action = "TIMER"
    /\ input[3].action = RELEASE
    /\ written = << <<PRESS, "LEFT_CTRL">>, <<RELEASE, "LEFT_CTRL">> >>

\* every PRESS so far was made in a window that is not Firefox
NeverFirefox == \A i \in DOMAIN input : input[i].wm_class # "Firefox"

WeirdSalute ==
    << <<PRESS, "A">>, <<PRESS, "B">>, <<PRESS, "C">>,
       <<RELEASE, "C">>, <<RELEASE, "B">>, <<RELEASE, "A">> >>

\* C9: in a window where the condition of the multipurpose modmap does not
\* hold, the output is the input under the unconditional modmap, in input
\* order; in Firefox the two held dual-role keys of the salute are written as
\* their hold modifiers in press order and released in input release order
C9_ConditionalMultiModmap ==
    (cfg = "cond_multi" /\ ~closed) =>
        /\ NeverFirefox => written = MappedInput
        /\ (/\ Len(input) = 6
            /\ InputStream = WeirdSalute
            /\ \A i \in 1..3 : input[i].wm_class = "Firefox")
           => OnlyModifiers(written)
                 = << <<PRESS, "LEFT_CTRL">>, <<PRESS, "LEFT_ALT">>,
                      <<RELEASE, "LEFT_ALT">>, <<RELEASE, "LEFT_CTRL">> >>

\* C10: a REPEAT or RELEASE is processed with the window context captured at
\* the PRESS of its key, and the provider is not queried for it
C10_ReplaysPressContext ==
    (/\ last_event.action \in {REPEAT, RELEASE}
     /\ last_event.seen # NoSeen)
    => /\ last_event.seen = last_event.press.seen
       /\ ~last_event.queried

\* C11: every PRESS of A with no modifier down is answered by the keymap
\* whose condition holds in the window of that PRESS: B is hit in Firefox and
\* C in any other window, whatever was typed before
C11_KeymapByPressContext ==
    (/\ cfg = "cond_keymap"
     /\ ~closed
     /\ last_event.action = PRESS
     /\ last_event.key = "A"
     /\ DOMAIN held = {"A"})
    => OutSince(last_event.out)
          = Bracket(Combo(<<>>, IF last_event.press.seen.wm_class = "Firefox"
                                THEN "B" ELSE "C"))

\* A hit in Firefox and then in a terminal
C11_Witness ==
    /\ cfg = "cond_keymap"
    /\ ~closed
    /\ Len(input) = 3
    /\ InputStream = << <<PRESS, "A">>, <<RELEASE, "A">>, <<PRESS, "A">> >>
    /\ input[1].wm_class = "Firefox"
    /\ input[3].wm_class = "Terminal"
    /\ written = << <<PRESS, "B">>, <<RELEASE, "B">>, <<PRESS, "C">>, <<RELEASE, "C">> >>

\* the callbacks from position p on begin with the key events of q, with
\* timer callbacks anywhere between them
RECURSIVE Follows(_, _)
Follows(p, q) ==
    IF q = <<>> THEN TRUE
    ELSE IF p > Len(input) THEN FALSE
    ELSE IF input[p].action = "TIMER" THEN Follows(p + 1, q)
    ELSE <<input[p].action, input[p].key>> = Head(q) /\ Follows(p + 1, Tail(q))

\* the same with no timer callback between them
FollowsAtOnce(p, q) ==
    /\ p + Len(q) - 1 <= Len(input)
    /\ \A i \in DOMAIN q : <<input[p + i - 1].action, input[p + i - 1].key>> = q[i]

TwoCombos ==
    << <<PRESS, "LEFT_CTRL">>, <<PRESS, "J">>, <<RELEASE, "J">>, <<PRESS, "K">> >>

TwoBrackets ==
    Bracket(Combo(<<"CONTROL">>, "TAB")) \o Bracket(Combo(<<"CONTROL", "SHIFT">>, "TAB"))

\* C12 as stated: Ctrl+J and then Ctrl+K with LEFT_CTRL held throughout
\* write the two brackets one after the other, and the releases of K and
\* of LEFT_CTRL that follow write nothing, whatever time passes meanwhile
C12_SecondComboBracket ==
    (cfg = "combos" /\ ~closed) =>
        \A p \in DOMAIN input :
            (/\ KeysDownBefore(p) = {}
             /\ Follows(p, TwoCombos)
             /\ \A i \in p..Len(input) : input[i].action \in {PRESS, RELEASE, "TIMER"}
             /\ \E n \in 4..6 : Follows(p, SubSeq(TwoCombos \o << <<RELEASE, "K">>,
                                               <<RELEASE, "LEFT_CTRL">> >>, 1, n))
                                  /\ Cardinality({i \in p..Len(input) :
                                          input[i].action # "TIMER"}) = n)
            => OutSince(OutBefore(p)) = TwoBrackets

\* C12 amended: the same when no suspend timeout elapses from the PRESS of
\* LEFT_CTRL to its RELEASE
C12_SecondComboBracketBeforeTimeout ==
    (cfg = "combos" /\ ~closed) =>
        \A p \in DOMAIN input :
            (/\ KeysDownBefore(p) = {}
             /\ \E n \in 4..6 :
                   /\ Len(input) = p + n - 1
                   /\ FollowsAtOnce(p, SubSeq(TwoCombos \o << <<RELEASE, "K">>,
                                        <<RELEASE, "LEFT_CTRL">> >>, 1, n)))
            => OutSince(OutBefore(p)) = TwoBrackets

\* the whole keystroke: both combos hit and LEFT_CTRL released at the end
C12_Witness ==
    /\ cfg = "combos"
    /\ ~closed
    /\ Len(input) = 6
    /\ FollowsAtOnce(1, TwoCombos \o << <<RELEASE, "K">>, <<RELEASE, "LEFT_CTRL">> >>)
    /\ written = TwoBrackets
    /\ output.pressed_keys = {}
    /\ output.pressed_modifier_keys = {}

\* the callback that follows is the PRESS of SPACE at the top level under
\* modifiers that make the left-hand side of a rule with BIND
BindRuleHit ==
    /\ Len(input') = Len(input) + 1
    /\ input'[Len(input')].action = PRESS
    /\ input'[Len(input')].key = "SPACE"
    /\ last_event'.exc = ""
    /\ active_keymaps = ActiveNone
    /\ combo_in_keymap(Combo(get_pressed_mods(State), "SPACE"), KEYMAPS(cfg)[1])

Unmatched(q, n) ==
    \A i \in q..n :
        \/ input[i].action = "TIMER"
        \/ input[i].key \in {"F", "LEFT_ALT"}
        \/ input[i].key = "SPACE" /\ input[i].action = RELEASE

\* what C14 says of the output written from position p on, where LEFT_META
\* goes down, SPACE being pressed under it at position q
StickyHold(p, q) ==
    LET out == OutSince(OutBefore(p))
        n == Len(input)
        lifted == input[n].action = RELEASE /\ input[n].key = "LEFT_META"
    IN Unmatched(q + 1, IF lifted THEN n - 1 ELSE n)
       => /\ Count(out, PRESS, "LEFT_CTRL", Len(out)) = 1
          /\ "LEFT_META" \notin StreamKeys(out)
          /\ IF lifted
             THEN /\ Count(out, RELEASE, "LEFT_CTRL", Len(out)) = 1
                  /\ OutSince(OutBefore(n)) = << <<RELEASE, "LEFT_CTRL">> >>
                  /\ output.pressed_modifier_keys \subseteq {"LEFT_ALT"}
             ELSE /\ Count(out, RELEASE, "LEFT_CTRL", Len(out)) = 0
                  /\ "LEFT_CTRL" \in output.pressed_modifier_keys

\* C14 as stated: META-SPACE hit with no key down before, however long
\* LEFT_META was held before SPACE
C14_StickyBind ==
    (cfg = "bind" /\ ~closed) =>
        \A p \in DOMAIN input : \A q \in (p + 1)..Len(input) :
            (/\ KeysDownBefore(p) = {}
             /\ input[p].action = PRESS /\ input[p].key = "LEFT_META"
             /\ \A i \in (p + 1)..(q - 1) : input[i].action = "TIMER"
             /\ input[q].action = PRESS /\ input[q].key = "SPACE")
            => StickyHold(p, q)

\* C14 amended: the same when SPACE is pressed before the suspend timeout of
\* LEFT_META elapses
C14_StickyBindBeforeTimeout ==
    (cfg = "bind" /\ ~closed) =>
        \A p \in DOMAIN input :
            (/\ KeysDownBefore(p) = {}
             /\ p < Len(input)
             /\ input[p].action = PRESS /\ input[p].key = "LEFT_META"
             /\ input[p + 1].action = PRESS /\ input[p + 1].key = "SPACE")
            => StickyHold(p, p + 1)

\* the keystrokes of the sticky bind scenario, complete
C14_Witness ==
    /\ cfg = "bind"
    /\ ~closed
    /\ Len(input) = 6
    /\ FollowsAtOnce(1, << <<PRESS, "LEFT_META">>, <<PRESS, "SPACE">>, <<RELEASE, "SPACE">>,
                           <<PRESS, "F">>, <<RELEASE, "F">>, <<RELEASE, "LEFT_META">> >>)
    /\ written = << <<PRESS, "LEFT_CTRL">>, <<PRESS, "SPACE">>, <<RELEASE, "SPACE">>,
                    <<PRESS, "F">>, <<RELEASE, "F">>, <<RELEASE, "LEFT_CTRL">> >>

\* the timeout that the PRESS of inkey asks the suspend timer to be armed
\* with: the multipurpose timeout for a dual-role key, the suspend timeout
\* for a modifier
Requested(inkey) ==
    IF inkey \in DOMAIN MULTI_MODMAPS(cfg)[1].mappings
    THEN TIMEOUTS(cfg).multipurpose
    ELSE TIMEOUTS(cfg).suspend

\* the callback that follows is the PRESS of a modifier or of a dual-role
\* key while the suspend timer is armed
ArmedPress(inkey) ==
    /\ suspend_timer # 0
    /\ Len(input') = Len(input) + 1
    /\ input'[Len(input')].action = PRESS
    /\ input'[Len(input')].key = inkey
    /\ inkey \in {"CAPSLOCK", "LEFT_SHIFT"}

\* the timer that _suspend_timer refers to, with the time left to it
Pending == SelectSeq(timers, LAMBDA h : h.id = suspend_timer)

\* C15: while the suspend timer is armed, the PRESS of a modifier or of a
\* dual-role key that asks for a shorter timeout leaves the pending timer and
\* the time left to it as they are, and one that asks for a longer timeout
\* puts a timer of that length in its place
C15_ShorterTimeoutIgnored ==
    [][\A inkey \in Config(cfg).inkeys :
          (cfg = "timeouts" /\ ArmedPress(inkey)) =>
              /\ Requested(inkey) < last_suspend_timeout
                    => (suspend_timer' = suspend_timer /\ Pending' = Pending)
              /\ Requested(inkey) > last_suspend_timeout
                    => (/\ Pending' = << [id |-> suspend_timer', remaining |-> Requested(inkey)] >>
                        /\ Len(timers') = 1)]_vars

\* position p of input is the PRESS of the key k, not a modifier, and since
\* then nothing has come in but REPEATs of k
Repeating(p, k) ==
    /\ ~is_key_modifier(k)
    /\ input[p].action = PRESS
    /\ input[p].key = k
    /\ \A i \in (p + 1)..Len(input) : input[i].action = REPEAT /\ input[i].key = k

\* the callback that follows is the REPEAT or the RELEASE of k
RepeatOrRelease(k) ==
    /\ Len(input') = Len(input) + 1
    /\ input'[Len(input')].action \in {REPEAT, RELEASE}
    /\ input'[Len(input')].key = k

\* C16: each REPEAT and the RELEASE of a key that has been pressed and has
\* only repeated since write what the same event writes when it goes through
\* the whole pipeline with no cache consulted
C16_CacheTransparent ==
    [][\A k \in Config(cfg).inkeys : \A p \in DOMAIN input :
          (cfg = "repeat" /\ ~closed /\ Repeating(p, k) /\ RepeatOrRelease(k))
          => written' = on_event_full(cfg, State, k, input'[Len(input')].action,
                                      WinFirefox).written]_vars

\* the output recorded for the key that is repeating: what the PRESS left in
\* the output tracking, or what the cache holds once it is populated
Recorded(k) ==
    IF repeat_cache.set /\ repeat_cache.valid /\ repeat_cache.inkey = k
    THEN repeat_cache.output
    ELSE output.last_output_for_cache

\* the REPEAT of k that follows is answered by the cache alone: no context
\* query, no keystate or keymap touched, one REPEAT of the recorded key
\* written, and the cache holds the recorded output afterwards
AnsweredByCache(k) ==
    /\ queries' = queries
    /\ key_states' = key_states
    /\ active_keymaps' = active_keymaps
    /\ written' = Append(written, <<REPEAT, IF Recorded(k).t = "passthrough" THEN k
                                            ELSE Recorded(k).key>>)
    /\ repeat_cache'.set /\ repeat_cache'.valid
    /\ repeat_cache'.inkey = k
    /\ repeat_cache'.output = Recorded(k)

\* the callback that follows is the PRESS of a key that is not a modifier
PressOf(k) ==
    /\ ~is_key_modifier(k)
    /\ Len(input') = Len(input) + 1
    /\ input'[Len(input')].action = PRESS
    /\ input'[Len(input')].key = k

RepeatOf(k) == RepeatOrRelease(k) /\ input'[Len(input')].action = REPEAT

\* LEFT_META, modmapped, went down first, k went down under it at position
\* 2, and nothing has come in since but REPEATs of k
UnderModmapped(k) ==
    /\ Len(input) >= 2
    /\ input[1].action = PRESS /\ input[1].key = "LEFT_META"
    /\ Repeating(2, k)

EventOf(k) ==
    /\ Len(input') = Len(input) + 1
    /\ input'[Len(input')].action \in Action
    /\ input'[Len(input')].key = k

\* what the callback that follows writes
Wrote == SubSeq(written', Len(written) + 1, Len(written'))

\* C18: every key event of a key k of the modmap is handled under the mapped
\* key: nothing is written for k itself; a PRESS asserts the mapped key (on
\* the output, or in the keystate of a modifier that is suspended); a REPEAT
\* writes a REPEAT of the mapped key; a RELEASE while the mapped key is down
\* on the output writes its RELEASE
C18_ModmapFixedPoint ==
    [][\A k \in DOMAIN MODMAPS(cfg)[1].mappings :
          (cfg = "modmap" /\ ~closed /\ EventOf(k)) =>
             LET a == input'[Len(input')].action
                 m == Modmapped(k)
             IN /\ k \notin StreamKeys(Wrote)
                /\ (a = PRESS /\ ~is_key_modifier(m))
                      => \E i \in DOMAIN Wrote : Wrote[i] = <<PRESS, m>>
                /\ (a = PRESS /\ is_key_modifier(m))
                      => \E i \in DOMAIN key_states' :
                            key_states'[i].inkey = k /\ key_states'[i].key = m
                /\ a = REPEAT => Wrote = << <<REPEAT, m>> >>
                /\ (a = RELEASE /\ m \in output.pressed_keys)
                      => \E i \in DOMAIN Wrote : Wrote[i] = <<RELEASE, m>>]_vars

\* the last callback is the PRESS of J with both keys of CONTROL down on the
\* input
BothSidesHit ==
    /\ input # <<>>
    /\ input[Len(input)].action = PRESS
    /\ input[Len(input)].key = "J"
    /\ {"LEFT_CTRL", "RIGHT_CTRL"} \subseteq DOMAIN held

\* C19: J pressed with LEFT_CTRL and RIGHT_CTRL both down, whether they are
\* on the output or still suspended, raises nothing and writes one PRESS and
\* then one RELEASE of TAB, with CONTROL down on the output meanwhile
C19_BothSidesOnce ==
    (cfg = "both_sides" /\ ~closed /\ BothSidesHit) =>
        LET out == OutSince(last_event.out)
            tab == SelectSeq(out, LAMBDA e : e[2] = "TAB")
            on_output == {"LEFT_CTRL", "RIGHT_CTRL"} \subseteq output.pressed_modifier_keys
        IN /\ last_event.exc = ""
           /\ tab = << <<PRESS, "TAB">>, <<RELEASE, "TAB">> >>
           /\ out = IF on_output THEN tab ELSE Bracket(Combo(<<"CONTROL">>, "TAB"))

\* both keys were written to the output by the suspend timeout before J
C19_Witness ==
    /\ cfg = "both_sides"
    /\ ~closed
    /\ BothSidesHit
    /\ last_event.exc = ""
    /\ output.pressed_modifier_keys = {"LEFT_CTRL", "RIGHT_CTRL"}
    /\ OutSince(last_event.out) = << <<PRESS, "TAB">>, <<RELEASE, "TAB">> >>


\* the positions in teardown of the steps of one kind
Step(op) == {i \in DOMAIN teardown : teardown[i][1] = op}

(***************************************************************************)
(* C20: on shutdown every device of the registry is ungrabbed and removed, *)
(* so that the registry is empty afterwards, and the ungrabbing happens    *)
(* after every still-asserted output key has been released and before the  *)
(* virtual device is closed.                                               *)
(***************************************************************************)
C20_ShutdownUngrabsAll ==
    closed =>
        /\ devices = <<>>
        /\ \A u \in Step("ungrab") :
              /\ \A w \in Step("write") : w < u
              /\ \A c \in Step("close") : u < c


\* the last callback was a key event of key k
LastKey(k) ==
    /\ input # <<>>
    /\ input[Len(input)].action \in Action
    /\ input[Len(input)].key = k
    /\ last_event.key = k

\* no event of a reserved key reached on_event or the output: no keystate, no
\* last key and no output event carries the key
NotDelivered(k) ==
    /\ \A i \in DOMAIN key_states : key_states[i].inkey # k /\ key_states[i].key # k
    /\ last_key # k
    /\ \A i \in DOMAIN written : written[i][2] # k

(***************************************************************************)
(* C21: an event of the diagnostics key or of the emergency eject key is   *)
(* never delivered to the transformation pipeline and never appears on the *)
(* output; a PRESS of the diagnostics key dumps the engine state and the   *)
(* engine continues (its REPEAT and RELEASE do nothing); any action of the *)
(* emergency eject key triggers shutdown.                                  *)
(***************************************************************************)
C21_ReservedKeys ==
    cfg = "reserved" =>
        /\ NotDelivered(DUMP_DIAGNOSTICS_KEY)
        /\ NotDelivered(EMERGENCY_EJECT_KEY)
        /\ (LastKey(DUMP_DIAGNOSTICS_KEY) /\ ~closed) =>
              /\ last_event.exc = ""
              /\ last_event.dumped = (last_event.action = PRESS)
              /\ key_states = last_event.before
              /\ Len(written) = last_event.out
        /\ LastKey(EMERGENCY_EJECT_KEY) => closed


\* the last callback was the PRESS of key k with LEFT_CTRL held and no other
\* key down
CtrlHit(k) ==
    /\ input # <<>>
    /\ input[Len(input)].action = PRESS
    /\ input[Len(input)].key = k
    /\ DOMAIN held = {"LEFT_CTRL", k}

\* the keys other than modifier keys written by the last key event
KeysWritten ==
    SelectSeq(OutSince(last_event.out), LAMBDA e : ~is_key_modifier(e[2]))

(***************************************************************************)
(* C22: when a user function of a command list raises, or a command has an *)
(* unknown type, the executor skips that command and executes the rest of  *)
(* the list; no exception escapes the event callback, and after the event  *)
(* the output's suspend_depth is 0.                                        *)
(***************************************************************************)
C22_FaultyCommandSkipped ==
    (cfg = "faulty" /\ ~closed) =>
        /\ output.suspend_depth = 0
        /\ CtrlHit("A") =>
              /\ last_event.exc = ""
              /\ KeysWritten = << <<PRESS, "B">>, <<RELEASE, "B">> >>
        /\ CtrlHit("J") =>
              /\ last_event.exc = ""
              /\ KeysWritten = << <<PRESS, "C">>, <<RELEASE, "C">> >>


\* every physical key is up and no suspend timer is pending
AllReleased ==
    /\ ~closed
    /\ input # <<>>
    /\ DOMAIN held = {}
    /\ timers = <<>>
    /\ suspend_timer = 0

(***************************************************************************)
(* C23: no stuck keys: whenever every physical key has been released and   *)
(* no suspend timer is pending, no key and no modifier key is pressed on   *)
(* the output, also when the window changes while keys are held.           *)
(***************************************************************************)
C23_NoStuckKeys ==
    AllReleased => /\ output.pressed_keys = {}
                   /\ output.pressed_modifier_keys = {}


\* the input keys of the records of the keystate table
Recorded_inkeys == {key_states[i].inkey : i \in DOMAIN key_states}

(***************************************************************************)
(* C24: after every input event the keystate table holds a record for the  *)
(* physical key k if and only if k has been pressed and not yet released,  *)
(* for modifier keys, dual-role keys and ordinary keys alike, and it holds *)
(* one record per key.                                                     *)
(***************************************************************************)
C24_KeystateIffHeld ==
    (cfg = "plain" /\ ~closed) =>
        /\ Recorded_inkeys = DOMAIN held
        /\ Cardinality(Recorded_inkeys) = Len(key_states)


(***************************************************************************)
(* C25: at most one suspend timer is pending at any time: when a suspend   *)
(* timer is armed, any timer armed before has been cancelled, so the       *)
(* pending handle is the one the engine holds in _suspend_timer.           *)
(***************************************************************************)
C25_OneSuspendTimer ==
    (cfg = "timeouts" /\ ~closed) =>
        /\ Len(timers) <= 1
        /\ \A i \in DOMAIN timers : timers[i].id = suspend_timer


\* every pressed keystate is marked suspended and its key is not pressed on
\* the output
AllSuspended ==
    \A i \in DOMAIN key_states :
        key_is_pressed(key_states[i]) =>
            /\ key_states[i].suspended
            /\ key_states[i].key \notin output.pressed_keys
            /\ key_states[i].key \notin output.pressed_modifier_keys

(***************************************************************************)
(* C26: in every reachable state in which the suspend timer is armed,      *)
(* every keystate whose key is pressed is marked suspended and its key has *)
(* not been written to the output.                                         *)
(***************************************************************************)
C26_ArmedMeansSuspended ==
    (cfg = "multi" /\ ~closed /\ suspend_timer # 0) => AllSuspended


\* the positions of written after position i at which key k is released
ReleasedAfter(k, i) == {j \in (i + 1)..Len(written) : written[j] = <<RELEASE, k>>}

(***************************************************************************)
(* C27: the engine never writes a PRESS of a key that the output already   *)
(* holds pressed: between two PRESS events of the same key in the output   *)
(* there is a RELEASE of that key.                                         *)
(***************************************************************************)
C27_NoDoublePress ==
    \A i, j \in DOMAIN written :
        (i < j /\ written[i][1] = PRESS /\ written[j] = written[i]) =>
            \E r \in ReleasedAfter(written[i][2], i) : r < j


\* key k is pressed on the output after the first n events written
DownAt(k, n) == Count(written, PRESS, k, n) > Count(written, RELEASE, k, n)

\* the last callback was the PRESS of key k with LEFT_CTRL held, and it is the
\* first event of a key other than LEFT_CTRL, so that the rule of Ctrl+k in the
\* top-level keymap is what it hits
MacroHit(k) ==
    /\ CtrlHit(k)
    /\ \A i \in 1..(Len(input) - 1) : input[i].key \in {"LEFT_CTRL", None}

\* the output of the last key event is the sequence q, between the lift of
\* LEFT_CTRL and its one PRESS after the last command when LEFT_CTRL was on
\* the output before the event, and q alone when it was still suspended
LiftedAround(q) ==
    OutSince(last_event.out) =
        IF DownAt("LEFT_CTRL", last_event.out)
        THEN << <<RELEASE, "LEFT_CTRL">> >> \o q \o << <<PRESS, "LEFT_CTRL">> >>
        ELSE q

(***************************************************************************)
(* C28: while a command list with several combos is executed (with lists   *)
(* returned by user functions and nested lists), a modifier key lifted     *)
(* from the output by a combo is not pressed again between the commands;   *)
(* it is pressed again exactly once, after the last command of the         *)
(* outermost list, and afterwards suspend_depth is 0 and suspended_mod_keys*)
(* is empty, also when the executor returns early (escape hint,            *)
(* ignore_key, nested keymap).                                             *)
(***************************************************************************)
C28_LiftedRepressedOnce ==
    (cfg = "macro" /\ ~closed) =>
        /\ output.suspend_depth = 0
        /\ output.suspended_mod_keys = <<>>
        /\ MacroHit("K") =>
              LiftedAround(Bracket(Combo(<<"SHIFT">>, "X"))
                             \o Bracket(Combo(<<>>, "Y"))
                             \o Bracket(Combo(<<"ALT">>, "Z")))
        /\ MacroHit("J") => LiftedAround(Bracket(Combo(<<"SHIFT">>, "X")))
        /\ MacroHit("L") =>
              LiftedAround(Bracket(Combo(<<"SHIFT">>, "X"))
                             \o Bracket(Combo(<<"ALT">>, "Z")))

C28_Witness ==
    /\ cfg = "macro"
    /\ ~closed
    /\ MacroHit("K")
    /\ DownAt("LEFT_CTRL", last_event.out)
    /\ Len(OutSince(last_event.out)) = 12
    /\ written[Len(written)] = <<PRESS, "LEFT_CTRL">>


\* key k is pressed on the output after the first n writes of the direct call
DownInCall(k, n) ==
    LET on_k == {i \in 1..n : written[i][2] = k}
    IN IF on_k = {} THEN k \in call.pressed_keys
       ELSE written[CHOOSE i \in on_k : \A j \in on_k : j <= i][1] = PRESS

\* the positions at which the PRESS of the combo's ordinary key is written
KeyPressAt == {i \in DOMAIN written : written[i] = <<PRESS, call.combo.key>>}

\* the keys of the modifiers of the combo
ComboModKeys ==
    UNION {SeqToSet(get_keys(call.combo.modifiers[i])) : i \in DOMAIN call.combo.modifiers}

(***************************************************************************)
(* C29: in every send_combo, at the moment the PRESS of the combo's        *)
(* ordinary key is written, every modifier of the combo has at least one   *)
(* of its keys pressed on the output and no modifier key outside the       *)
(* combo's modifiers is pressed on the output; the RELEASE of the ordinary *)
(* key is the next event written after its PRESS.                          *)
(***************************************************************************)
C29_ComboModifiersExact ==
    (cfg = "send_combo" /\ call.done) =>
        \A p \in KeyPressAt :
            /\ \A i \in DOMAIN call.combo.modifiers :
                  \E k \in SeqToSet(get_keys(call.combo.modifiers[i])) : DownInCall(k, p)
            /\ \A k \in BY_KEY : DownInCall(k, p) => k \in ComboModKeys
            /\ p < Len(written)
            /\ written[p + 1] = <<RELEASE, call.combo.key>>

C29_Witness ==
    /\ cfg = "send_combo"
    /\ call.done
    /\ call.combo = Combo(<<"CONTROL", "SHIFT">>, "TAB")
    /\ call.pressed_keys = {"RIGHT_CTRL", "LEFT_ALT", "A"}
    /\ KeyPressAt = {3}

(***************************************************************************)
(* C30: when suspend_depth is 0, send_combo leaves the output's            *)
(* pressed_keys and pressed_modifier_keys exactly as they were before the  *)
(* call, for every combo and every prior pressed state, also when the      *)
(* combo's ordinary key or one of its modifier keys is already held.       *)
(***************************************************************************)
C30_SendComboFrame ==
    (cfg = "send_combo" /\ call.done /\ call.suspend_depth = 0) =>
        /\ output.pressed_keys = call.pressed_keys
        /\ output.pressed_modifier_keys = {k \in call.pressed_keys : is_key_modifier(k)}

\* C30 amended: the two sets are as before the call provided that the combo's
\* ordinary key is not held on the output when send_combo is called; a held
\* ordinary key is released by the combo and left released
C30_SendComboFrameKeyUp ==
    (cfg = "send_combo" /\ call.done /\ call.suspend_depth = 0) =>
        /\ output.pressed_keys =
              IF call.exc = "" THEN call.pressed_keys \ {call.combo.key}
              ELSE call.pressed_keys
        /\ output.pressed_modifier_keys = {k \in call.pressed_keys : is_key_modifier(k)}

C30_Witness ==
    /\ cfg = "send_combo"
    /\ call.done
    /\ call.suspend_depth = 0
    /\ call.exc = ""
    /\ call.combo = Combo(<<"CONTROL">>, "TAB")
    /\ call.pressed_keys = {"LEFT_SHIFT", "LEFT_CTRL", "A"}
    /\ Len(written) = 4

(***************************************************************************)
(* C31: a send_combo whose modifiers hold both the left-specific and the   *)
(* generic modifier of one family (L_CONTROL and CONTROL) raises nothing   *)
(* and writes at most one PRESS and one RELEASE of the representative key  *)
(* LEFT_CTRL, and exactly one of each when no key of the family is pressed *)
(* on the output before the call.                                          *)
(***************************************************************************)
C31_GenericDropped ==
    (cfg = "send_combo" /\ call.done
        /\ call.combo = Combo(<<"L_CONTROL", "CONTROL">>, "TAB")) =>
        LET presses == Count(written, PRESS, "LEFT_CTRL", Len(written))
            releases == Count(written, RELEASE, "LEFT_CTRL", Len(written))
        IN /\ call.exc = ""
           /\ presses <= 1
           /\ releases <= 1
           /\ (call.pressed_keys \cap {"LEFT_CTRL", "RIGHT_CTRL"} = {}) =>
                 (presses = 1 /\ releases = 1)

\* the nested keymap of the combo sequence is the one active keymap
NestedActive == active_keymaps = ActiveList(<<2>>)

\* this step is a key event callback
KeyEventStep == Len(input') = Len(input) + 1 /\ input'[Len(input')].action # "TIMER"

\* this step is the callback of the PRESS of a key that is no modifier
OrdinaryPressStep ==
    /\ KeyEventStep
    /\ input'[Len(input')].action = PRESS
    /\ ~is_key_modifier(input'[Len(input')].key)

\* what this step writes to the output
WrittenByStep == SubSeq(written', Len(written) + 1, Len(written'))

\* the step completes Ctrl+SPACE, the one combo of the nested keymap
NestedComboStep ==
    /\ input'[Len(input')].key = "SPACE"
    /\ "LEFT_CTRL" \in DOMAIN held

\* what the next ordinary PRESS does inside the nested keymap: Ctrl+SPACE
\* writes one PRESS and one RELEASE of Q (lifting Ctrl around them if it is on
\* the output), any other key writes nothing, and the sequence is over
NestedPressOutcome ==
    /\ active_keymaps' = ActiveNone
    /\ IF NestedComboStep
       THEN /\ SelectSeq(WrittenByStep, LAMBDA e : e[2] = "Q")
                 = << <<PRESS, "Q">>, <<RELEASE, "Q">> >>
            /\ \A i \in DOMAIN WrittenByStep : WrittenByStep[i][2] \in {"Q", "LEFT_CTRL"}
       ELSE WrittenByStep = <<>>

(***************************************************************************)
(* C32: while the nested keymap entered by Ctrl+X is active, every step    *)
(* other than the PRESS of a non-modifier key leaves it the only active    *)
(* keymap; the next PRESS of a non-modifier key is matched against the     *)
(* nested keymap alone (Ctrl+SPACE writes Q, anything else writes nothing) *)
(* and leaves the engine at top level.                                     *)
(***************************************************************************)
C32_NestedSequence ==
    [][(cfg = "nested" /\ NestedActive /\ ~closed') =>
          IF OrdinaryPressStep THEN NestedPressOutcome
          ELSE active_keymaps' = active_keymaps]_vars

(***************************************************************************)
(* C32, amended: as above when the window-context provider reports no      *)
(* error for that PRESS; when it reports an error the key is written       *)
(* under its own code as a PRESS and the nested keymap stays active.       *)
(***************************************************************************)
C32_NestedSequenceUnlessError ==
    [][(cfg = "nested" /\ NestedActive /\ ~closed') =>
          IF OrdinaryPressStep
          THEN IF last_event'.seen.err
               THEN /\ active_keymaps' = active_keymaps
                    /\ WrittenByStep # <<>>
                    /\ WrittenByStep[Len(WrittenByStep)]
                          = <<PRESS, input'[Len(input')].key>>
               ELSE NestedPressOutcome
          ELSE active_keymaps' = active_keymaps]_vars

\* Ctrl+X, then Ctrl+SPACE inside the nested keymap: Q has been written and
\* the engine is back at top level
C32_Witness ==
    /\ cfg = "nested"
    /\ ~closed
    /\ Len(input) >= 3
    /\ input[Len(input)].action = PRESS
    /\ input[Len(input)].key = "SPACE"
    /\ \E i \in 1..(Len(input) - 1) : input[i].action = PRESS /\ input[i].key = "X"
    /\ active_keymaps = ActiveNone
    /\ OutSince(last_event.out) = << <<PRESS, "Q">>, <<RELEASE, "Q">> >>

\* ESCAPE_NEXT_COMBO mode is armed
EscapeArmed == active_keymaps.t = "escape_next_combo"

\* what the first ordinary PRESS does in ESCAPE_NEXT_COMBO mode: the held
\* modifiers that were not on the output are pressed, then the key is pressed
\* under its own code, and the mode is cleared
EscapedPressOutcome ==
    /\ active_keymaps' = ActiveNone
    /\ WrittenByStep # <<>>
    /\ WrittenByStep[Len(WrittenByStep)] = <<PRESS, input'[Len(input')].key>>
    /\ \A i \in 1..(Len(WrittenByStep) - 1) :
          /\ WrittenByStep[i][1] = PRESS
          /\ WrittenByStep[i][2] \in DOMAIN held
          /\ is_key_modifier(WrittenByStep[i][2])
          /\ WrittenByStep[i][2] \notin output.pressed_modifier_keys
    /\ \A k \in DOMAIN held : is_key_modifier(k) => k \in output'.pressed_modifier_keys

(***************************************************************************)
(* C33: once ESCAPE_NEXT_COMBO mode is armed, every step other than the    *)
(* PRESS of a non-modifier key leaves it armed, and the first PRESS of a   *)
(* non-modifier key clears it, writes the PRESS of every held modifier     *)
(* that was not on the output and then the PRESS of the key itself.        *)
(***************************************************************************)
C33_EscapeNextCombo ==
    [][(cfg = "nested" /\ EscapeArmed /\ ~closed') =>
          IF OrdinaryPressStep THEN EscapedPressOutcome
          ELSE active_keymaps' = active_keymaps]_vars

(***************************************************************************)
(* C33, amended: as above when the window-context provider reports no      *)
(* error for that PRESS; when it reports an error the modifiers and the    *)
(* key are written in the same way but the mode stays armed.               *)
(***************************************************************************)
C33_EscapeNextComboUnlessError ==
    [][(cfg = "nested" /\ EscapeArmed /\ ~closed') =>
          IF OrdinaryPressStep
          THEN IF last_event'.seen.err
               THEN /\ active_keymaps' = active_keymaps
                    /\ WrittenByStep # <<>>
                    /\ WrittenByStep[Len(WrittenByStep)]
                          = <<PRESS, input'[Len(input')].key>>
               ELSE EscapedPressOutcome
          ELSE active_keymaps' = active_keymaps]_vars

\* Ctrl+SPACE armed the mode, and Ctrl+X then went to the output as it is
C33_Witness ==
    /\ cfg = "nested"
    /\ ~closed
    /\ InputStream = << <<PRESS, "LEFT_CTRL">>, <<PRESS, "SPACE">>, <<PRESS, "X">> >>
    /\ written = << <<PRESS, "LEFT_CTRL">>, <<PRESS, "X">> >>
    /\ active_keymaps = ActiveNone

\* this step is the callback of the physical RELEASE of the input key of the
\* sticky entry
StickyReleaseStep ==
    /\ KeyEventStep
    /\ sticky # <<>>
    /\ input'[Len(input')].action = RELEASE
    /\ input'[Len(input')].key = sticky[1].inkey

(***************************************************************************)
(* C34: the physical RELEASE of the input key of a sticky entry writes     *)
(* exactly one RELEASE of the bound output key and nothing else (so no     *)
(* RELEASE of the input key under its own identity), and removes the       *)
(* entry, whether or not the input key was exerted on the output and       *)
(* whether or not the bound output modifier has the input key.             *)
(***************************************************************************)
C34_StickyRelease ==
    [][(cfg = "cover" /\ StickyReleaseStep /\ ~closed') =>
          /\ sticky' = <<>>
          /\ WrittenByStep = << <<RELEASE, sticky[1].outkey>> >>]_vars

\* the repeat cache exists and is marked valid
CacheValid == repeat_cache.set /\ repeat_cache.valid

\* the snapshot of pressed modifier keys is the one stored in the cache
SnapshotMatches == get_modifier_snapshot(State) = repeat_cache.mods_held

(***************************************************************************)
(* C35: in every reachable state, a repeat cache that is marked valid has  *)
(* its inkey physically held and its stored snapshot equal to the current  *)
(* snapshot of pressed modifier keys.                                      *)
(***************************************************************************)
C35_ValidCache ==
    (cfg = "repeat" /\ CacheValid) =>
        /\ repeat_cache.inkey \in DOMAIN held
        /\ SnapshotMatches

(***************************************************************************)
(* C35, amended: a repeat cache that is marked valid has its inkey         *)
(* physically held, and its stored snapshot equals the current snapshot    *)
(* of pressed modifier keys unless the modifier-changed flag is raised.    *)
(***************************************************************************)
C35_ValidCacheOrFlagged ==
    (cfg = "repeat" /\ CacheValid) =>
        /\ repeat_cache.inkey \in DOMAIN held
        /\ cache_flags.modifiers_changed_since_cache \/ SnapshotMatches

\* J repeats under the modmapped modifier and the cache answers: it is valid
\* with the snapshot of LEFT_CTRL
C35_Witness ==
    /\ cfg = "repeat"
    /\ ~closed
    /\ InputStream = << <<PRESS, "LEFT_META">>, <<PRESS, "J">>, <<REPEAT, "J">>,
                        <<REPEAT, "J">> >>
    /\ CacheValid
    /\ repeat_cache.inkey = "J"
    /\ repeat_cache.mods_held = <<"LEFT_CTRL">>
    /\ ~cache_flags.modifiers_changed_since_cache

\* the key event of this step
StepKey == input'[Len(input')].key
StepAction == input'[Len(input')].action

\* this step enters the nested keymap
NestedEntryStep ==
    /\ KeyEventStep
    /\ active_keymaps # ActiveList(<<3>>)
    /\ active_keymaps' = ActiveList(<<3>>)

(***************************************************************************)
(* C36: the PRESS of a non-modifier key other than the cached one, the     *)
(* RELEASE of the cached key, and the entry into a nested keymap each      *)
(* leave the repeat cache not valid; every PRESS or RELEASE of a modifier  *)
(* raises the modifier-changed flag; and whenever the cache is valid and   *)
(* the flag is down, the stored snapshot is the current one.               *)
(***************************************************************************)
C36_CacheInvalidations ==
    /\ [][(cfg = "two_keyboards" /\ KeyEventStep /\ ~closed') =>
            /\ (/\ repeat_cache.set
                /\ StepAction = PRESS
                /\ ~is_key_modifier(StepKey)
                /\ StepKey # repeat_cache.inkey) => ~repeat_cache'.valid
            /\ (/\ repeat_cache.set
                /\ StepAction = RELEASE
                /\ StepKey = repeat_cache.inkey) => ~repeat_cache'.valid
            /\ NestedEntryStep => ~repeat_cache'.valid
            /\ (StepAction \in {PRESS, RELEASE} /\ is_key_modifier(StepKey))
                  => cache_flags'.modifiers_changed_since_cache]_vars
    /\ []((cfg = "two_keyboards" /\ CacheValid
              /\ ~cache_flags.modifiers_changed_since_cache) => SnapshotMatches)

\* this step is the callback of a PRESS for which the window-context provider
\* reported an error
ErrorPressStep ==
    /\ KeyEventStep
    /\ StepAction = PRESS
    /\ input'[Len(input')].wm_class = WinError.wm_class

\* the pass-through of a PRESS: what was suspended is pressed on the output
\* first, then the key under its own input code, and no mapping is applied
ErrorPassThrough ==
    /\ WrittenByStep # <<>>
    /\ WrittenByStep[Len(WrittenByStep)] = <<PRESS, StepKey>>
    /\ \A i \in 1..(Len(WrittenByStep) - 1) :
          /\ WrittenByStep[i][1] = PRESS
          /\ is_key_modifier(WrittenByStep[i][2])
    /\ suspend_timer' = 0
    /\ \A i \in DOMAIN key_states' : ~key_states'[i].suspended
    /\ active_keymaps' = active_keymaps
    /\ sticky' = sticky
    /\ last_event'.exc = ""

\* with no error the mappings apply: the PRESS of C is written as DELETE, or
\* as B when Ctrl is held, and never as C
MappingsApply ==
    (KeyEventStep /\ StepAction = PRESS /\ StepKey = "C" /\ ~ErrorPressStep) =>
        /\ last_event'.exc = ""
        /\ \E i \in DOMAIN WrittenByStep : WrittenByStep[i] \in {<<PRESS, "DELETE">>, <<PRESS, "B">>}
        /\ \A i \in DOMAIN WrittenByStep : WrittenByStep[i][2] # "C"

WokenUp == cfg = "wakeup" /\ Len(input) = Len(all_keys_to_reset)

(***************************************************************************)
(* C38: when the startup injection has run, exactly one RELEASE has been   *)
(* written for every modifier key and every typing key of its lists and    *)
(* nothing else, and the engine is as it was: no keystate, no suspend      *)
(* timer, no window-context query, and the repeat cache, the sticky table  *)
(* and the active keymap list unchanged.                                   *)
(***************************************************************************)
C38_StartupInjection ==
    WokenUp =>
        /\ \A k \in SeqToSet(all_keys_to_reset) :
              Count(written, RELEASE, k, Len(written)) = 1
        /\ \A i \in DOMAIN written : written[i][1] = RELEASE
        /\ key_states = <<>>
        /\ suspend_timer = 0
        /\ timers = <<>>
        /\ queries = 0
        /\ repeat_cache = NoCache
        /\ sticky = <<>>
        /\ active_keymaps = ActiveNone

(***************************************************************************)
(* Suspend timer across reset and shutdown                                 *)
(***************************************************************************)
ResetDone == input # <<>> /\ input[Len(input)].action = "RESET"

NoTimerPending == timers = <<>> /\ suspend_timer = 0

\* C39: a suspend timer armed before reset_transform or shutdown is cancelled
\* by it: once the virtual device is closed, and right after a reset, no
\* call_later handle is pending and _suspend_timer is None, so that no
\* resume_keys callback can run on the closed device or on the fresh state
C39_TimersCancelled ==
    /\ closed => NoTimerPending
    /\ ResetDone => NoTimerPending

(***************************************************************************)
(* Hotplug: what the registry holds                                        *)
(***************************************************************************)
\* nothing is left to process: no unread notification, no queued one, no
\* armed timer and no running task
HotplugQuiet ==
    /\ hotplug.pending = <<>>
    /\ hotplug.notify_events = <<>>
    /\ ~hotplug.add_timer
    /\ hotplug.tasks = <<>>

PathRegisteredOnce ==
    \A i, j \in DOMAIN devices : devices[i].path = devices[j].path => i = j

DeletedNotRegistered ==
    HotplugQuiet =>
        \A i \in DOMAIN devices :
            InputDevice(devices[i].path, hotplug.fs[devices[i].path]) = devices[i]

GrabbedOnlyIfNew ==
    \A g \in hotplug.grabs : filter(g.device) /\ ~in_registry(g.registry, g.device)

\* C40: after any sequence of autodetection and hotplug notifications, with
\* device_change tasks interleaving at their await points, each device path is
\* registered at most once, a device reported deleted is no longer registered
\* once the notifications are processed, and a device is grabbed only if it
\* matches the filter and was not already registered
C40_HotplugRegistry ==
    cfg = "hotplug" =>
        /\ PathRegisteredOnce
        /\ DeletedNotRegistered
        /\ GrabbedOnlyIfNew

====
